---- MODULE Spec2Model ----
(***************************************************************************)
(* A model of the binviewer BIN decoder: the Buffer byte reader, read_bin   *)
(* (header, table decoding, polygon sanitising, object table), toThree      *)
(* (triangulation) and the hierarchy walk of setupThree.                    *)
(*                                                                          *)
(* Conventions.  A byte buffer is a sequence of bytes 0..255; byte offset o *)
(* of the source is element o+1 here.  A float (r32, r64) is kept as the    *)
(* tuple of its little-endian bytes, a Float32Array as a sequence of such   *)
(* 4-tuples.  NoArg stands for an argument the caller left out (undefined). *)
(***************************************************************************)
EXTENDS Integers, Sequences, FiniteSets, TLC

VARIABLES
  b,        \* the Buffer under test, [buf, cursor]
  call,     \* the last Buffer method call and the cursor before it
  ret,      \* what that call returned, or that it threw
  comp,     \* light normal: the three components before packing, in 1/16384
  lbuffer,  \* light normal: the Buffer over the 8-byte light record
  light,    \* light normal: the decoded Light, or NoLight before decoding
  lthrew,   \* light normal: a read of the light loop threw
  mbuffer,  \* materials: the Buffer over the material table
  num_materials, \* materials: the header's material count
  materials,     \* materials: the Material records decoded so far
  mthrew,   \* materials: a read of the material loop threw
  objects,  \* hierarchy: AppState.model.objects, each with child and sibling
  parentIndex, \* hierarchy: setupThree's parentIndex array
  hi,       \* hierarchy: the outer loop's i
  hs,       \* hierarchy: the sibling walk's s
  hpc,      \* hierarchy: "outer" (at the for), "inner" (at the while), "done",
            \* "attached"
  hturn,    \* hierarchy: parity of the while-body passes made so far, so that
            \* a pass that rewrites the values already there is still a step
  attachedTo, \* hierarchy: for each object's group, what add(g) was called on
  buffer,   \* read_bin: the Buffer over bin (buffer.buf is bin)
  pc,       \* read_bin / toThree: the part of the code about to run
  model,    \* read_bin: the Model under construction, NoModel before
  results,  \* toThree: the per-object results, <<>> before
  models,   \* viewer: MultiModelState.models, entries {name, model, textures}
  currentModelIndex, \* viewer: MultiModelState.currentModelIndex
  modelSelector,     \* viewer: MultiModelState.modelSelector, the selector or null
  appModel, \* viewer: AppState.model, the model last given to loadModelWithTextures
  viewer,   \* viewer: the page has a '.viewer' container
  loads     \* viewer: the calls of loadModelsFromDirectory: where each stands

bufferVars == <<b, call, ret>>
lightVars == <<comp, lbuffer, light, lthrew>>
matVars == <<mbuffer, num_materials, materials, mthrew>>
hierVars == <<objects, parentIndex, hi, hs, hpc, hturn, attachedTo>>
binVars == <<buffer, pc, model, results>>
multiVars == <<models, currentModelIndex, modelSelector, appModel, viewer, loads>>
vars == <<bufferVars, lightVars, matVars, hierVars, binVars, multiVars>>

NoArg == -1

Min(x, y) == IF x < y THEN x ELSE y
Max(x, y) == IF x > y THEN x ELSE y

\* ---------------------------------------------------------------- Buffer
SZ_R64 == 8
SZ_R32 == 4
SZ_I32 == 4
SZ_U32 == 4
SZ_I16 == 2
SZ_U16 == 2
SZ_I8 == 1
SZ_U8 == 1

\* new Buffer(buffer): the DataView over it and a cursor at 0
NewBuffer(bytes) == [buf |-> bytes, cursor |-> 0]

\* DataView's range check: a read of n bytes at offset at stays inside the view
InView(bytes, at, n) == at >= 0 /\ at + n <= Len(bytes)

\* DataView.getUint8 / getInt8 / getUint16 / getInt16 / getUint32 / getInt32,
\* little-endian.  A getUint32 value of 2^31 or more is kept as its top byte
\* and its low 24 bits: high * 2^24 + low.
getUint8(bytes, at) == bytes[at + 1]
getInt8(bytes, at) == IF bytes[at + 1] >= 128 THEN bytes[at + 1] - 256 ELSE bytes[at + 1]
getUint16(bytes, at) == bytes[at + 1] + 256 * bytes[at + 2]
getInt16(bytes, at) ==
  IF getUint16(bytes, at) >= 32768 THEN getUint16(bytes, at) - 65536 ELSE getUint16(bytes, at)
getUint32(bytes, at) ==
  IF bytes[at + 4] < 128
    THEN bytes[at + 1] + 256 * bytes[at + 2] + 65536 * bytes[at + 3]
           + 16777216 * bytes[at + 4]
    ELSE [high |-> bytes[at + 4],
          low |-> bytes[at + 1] + 256 * bytes[at + 2] + 65536 * bytes[at + 3]]
getInt32(bytes, at) ==
  bytes[at + 1] + 256 * bytes[at + 2] + 65536 * bytes[at + 3]
    + 16777216 * (IF bytes[at + 4] >= 128 THEN bytes[at + 4] - 256 ELSE bytes[at + 4])
\* getFloat32 / getFloat64: the bytes of the float
getFloat32(bytes, at) == <<bytes[at + 1], bytes[at + 2], bytes[at + 3], bytes[at + 4]>>
getFloat64(bytes, at) == [i \in 1..8 |-> bytes[at + i]]

\* The value a DataView getter of the given kind decodes at offset at
Decode(kind, bytes, at) ==
  CASE kind = "r64" -> getFloat64(bytes, at)
    [] kind = "r32" -> getFloat32(bytes, at)
    [] kind = "i32" -> getInt32(bytes, at)
    [] kind = "u32" -> getUint32(bytes, at)
    [] kind = "i16" -> getInt16(bytes, at)
    [] kind = "u16" -> getUint16(bytes, at)
    [] kind = "i8" -> getInt8(bytes, at)
    [] kind = "u8" -> getUint8(bytes, at)

Width(kind) ==
  CASE kind = "r64" -> SZ_R64
    [] kind = "r32" -> SZ_R32
    [] kind = "i32" -> SZ_I32
    [] kind = "u32" -> SZ_U32
    [] kind = "i16" -> SZ_I16
    [] kind = "u16" -> SZ_U16
    [] kind = "i8" -> SZ_I8
    [] kind = "u8" -> SZ_U8

\* `if (!at) at = this.cursor`: a missing argument and the offset 0 are both falsy
ReadPos(this, at) == IF at = NoArg \/ at = 0 THEN this.cursor ELSE at

\* One scalar method of Buffer (r64 r32 i32 u32 i16 u16 i8 u8):
\*   if (!at) at = this.cursor; this.cursor += SZ; return this.dv.getX(at, true);
\* The cursor has moved when the getter throws its RangeError.
Scalar(kind, this, at) ==
  LET pos == ReadPos(this, at)
      ok == InView(this.buf, pos, Width(kind))
  IN [cursor |-> this.cursor + Width(kind),
      threw |-> ~ok,
      val |-> IF ok THEN Decode(kind, this.buf, pos) ELSE <<>>]

r64(this, at) == Scalar("r64", this, at)
r32(this, at) == Scalar("r32", this, at)
i32(this, at) == Scalar("i32", this, at)
u32(this, at) == Scalar("u32", this, at)
i16(this, at) == Scalar("i16", this, at)
u16(this, at) == Scalar("u16", this, at)
i8(this, at) == Scalar("i8", this, at)
u8(this, at) == Scalar("u8", this, at)

\* vec3f(at): at is assigned and never used; three r32() calls at the cursor.
\* The first of them that throws ends the call with the cursor it left.
\* (x, y, z are passed on as the calls return them.)
Vec3fEnd(x, y, z) ==
  IF z.threw THEN z
  ELSE [cursor |-> z.cursor, threw |-> FALSE, val |-> <<x.val, y.val, z.val>>]
Vec3fZ(this, x, y) ==
  IF y.threw THEN y
  ELSE Vec3fEnd(x, y, r32([this EXCEPT !.cursor = y.cursor], NoArg))
Vec3fY(this, x) ==
  IF x.threw THEN x
  ELSE Vec3fZ(this, x, r32([this EXCEPT !.cursor = x.cursor], NoArg))
vec3f(this, at) == Vec3fY(this, r32(this, NoArg))

\* The bytes of arr before its first zero byte (String.fromCharCode of each)
RECURSIVE UntilZero(_, _)
UntilZero(arr, i) ==
  IF i > Len(arr) \/ arr[i] = 0 THEN <<>>
  ELSE <<arr[i]>> \o UntilZero(arr, i + 1)

\* str(at, until = 0): with one argument it is the length and the read is at the
\* cursor.  new Uint8Array(buf, at, until) throws before the cursor moves.
str(this, at, until) ==
  LET n == IF until = 0 THEN at ELSE until
      pos == IF until = 0 THEN this.cursor ELSE at
      ok == InView(this.buf, pos, n)
  IN [cursor |-> IF ok THEN this.cursor + n ELSE this.cursor,
      threw |-> ~ok,
      val |-> IF ok THEN UntilZero(SubSeq(this.buf, pos + 1, pos + n), 1) ELSE <<>>]

\* A run of sequential calls on one Buffer, in order: each kind is a scalar
\* method, "vec3f", or "str8"/"str16" for str(8)/str(16).  The run ends at the
\* first call that throws.
Read1(this, kind) ==
  IF kind = "vec3f" THEN vec3f(this, NoArg)
  ELSE IF kind = "str8" THEN str(this, 8, 0)
  ELSE IF kind = "str16" THEN str(this, 16, 0)
  ELSE Scalar(kind, this, NoArg)

RECURSIVE Reads(_, _)
ReadsJoin(r, rest) ==
  [threw |-> rest.threw, cursor |-> rest.cursor, vals |-> <<r.val>> \o rest.vals]
ReadsNext(this, kinds, r) ==
  IF r.threw THEN [threw |-> TRUE, cursor |-> r.cursor, vals |-> <<>>]
  ELSE ReadsJoin(r, Reads([this EXCEPT !.cursor = r.cursor], Tail(kinds)))
Reads(this, kinds) ==
  IF kinds = <<>> THEN [threw |-> FALSE, cursor |-> this.cursor, vals |-> <<>>]
  ELSE ReadsNext(this, kinds, Read1(this, Head(kinds)))

\* ------------------------------------------------ variables a spec leaves idle
BufferStart(bytes) ==
  /\ b = NewBuffer(bytes)
  /\ call = [op |-> "new", at |-> NoArg, until |-> 0, cursor |-> 0]
  /\ ret = [threw |-> FALSE, val |-> <<>>]

NoLight == [object |-> -1, point |-> -1, normal |-> <<>>]
BufferIdle == BufferStart(<<>>)
LightIdle ==
  comp = <<>> /\ lbuffer = NewBuffer(<<>>) /\ light = NoLight /\ lthrew = FALSE
MatIdle ==
  mbuffer = NewBuffer(<<>>) /\ num_materials = 0 /\ materials = <<>> /\ mthrew = FALSE
HierIdle ==
  /\ objects = <<>> /\ parentIndex = <<>> /\ hi = 0 /\ hs = -1 /\ hpc = "done"
  /\ hturn = 0
  /\ attachedTo = <<>>
NoModel == [none |-> TRUE]
BinIdle == buffer = NewBuffer(<<>>) /\ pc = "idle" /\ model = NoModel /\ results = <<>>
MultiIdle ==
  /\ models = <<>> /\ currentModelIndex = -1 /\ modelSelector = [null |-> TRUE]
  /\ appModel = [null |-> TRUE] /\ viewer = FALSE /\ loads = <<>>

\* ------------------------------------------------- Buffer as a state machine
BufLen == 14
MaxAt == 6

\* Two buffers: distinct bytes everywhere (negative i8/i16 in the first bytes),
\* and one with zero bytes for str to stop at
BufferInputs ==
  { [i \in 1..BufLen |-> IF i <= 3 THEN 255 - i ELSE (37 * i + 11) % 128],
    [i \in 1..BufLen |-> IF i % 5 = 0 THEN 0 ELSE (3 * i) % 128] }

ScalarKinds == {"r64", "r32", "i32", "u32", "i16", "u16", "i8", "u8"}

InitBuffer ==
  /\ MultiIdle
  /\ \E bytes \in BufferInputs : BufferStart(bytes)
  /\ LightIdle
  /\ MatIdle
  /\ HierIdle
  /\ BinIdle

\* The caller invokes one method; the Buffer's cursor and the result follow
Called(op, at, until, r) ==
  /\ b.cursor <= BufLen
  /\ call' = [op |-> op, at |-> at, until |-> until, cursor |-> b.cursor]
  /\ b' = [b EXCEPT !.cursor = r.cursor]
  /\ ret' = [threw |-> r.threw, val |-> r.val]
  /\ UNCHANGED <<lightVars, matVars, hierVars, binVars, multiVars>>

CallR64 == \E at \in {NoArg} \cup 0..MaxAt : Called("r64", at, 0, r64(b, at))
CallR32 == \E at \in {NoArg} \cup 0..MaxAt : Called("r32", at, 0, r32(b, at))
CallI32 == \E at \in {NoArg} \cup 0..MaxAt : Called("i32", at, 0, i32(b, at))
CallU32 == \E at \in {NoArg} \cup 0..MaxAt : Called("u32", at, 0, u32(b, at))
CallI16 == \E at \in {NoArg} \cup 0..MaxAt : Called("i16", at, 0, i16(b, at))
CallU16 == \E at \in {NoArg} \cup 0..MaxAt : Called("u16", at, 0, u16(b, at))
CallI8 == \E at \in {NoArg} \cup 0..MaxAt : Called("i8", at, 0, i8(b, at))
CallU8 == \E at \in {NoArg} \cup 0..MaxAt : Called("u8", at, 0, u8(b, at))
CallVec3f == \E at \in {NoArg} \cup 0..MaxAt : Called("vec3f", at, 0, vec3f(b, at))
\* str(n) reads n bytes at the cursor, str(at, until) reads until bytes at at
CallStr ==
  \/ \E n \in 0..MaxAt : Called("str", n, 0, str(b, n, 0))
  \/ \E at \in 0..MaxAt, until \in 1..MaxAt : Called("str", at, until, str(b, at, until))

NextBuffer ==
  \/ CallR64 \/ CallR32 \/ CallI32 \/ CallU32 \/ CallI16
  \/ CallU16 \/ CallI8 \/ CallU8 \/ CallVec3f \/ CallStr

SpecBuffer == InitBuffer /\ [][NextBuffer]_vars

\* The read position the caller asked for: the cursor for a sequential read,
\* the explicit argument for a read at an absolute offset
AskedPos ==
  IF call.op = "str" THEN (IF call.until = 0 THEN call.cursor ELSE call.at)
  ELSE IF call.at = NoArg THEN call.cursor ELSE call.at

AskedWidth ==
  IF call.op = "str" THEN (IF call.until = 0 THEN call.at ELSE call.until)
  ELSE IF call.op = "vec3f" THEN 3 * SZ_R32
  ELSE Width(call.op)

AskedValue ==
  IF call.op = "str"
    THEN UntilZero(SubSeq(b.buf, AskedPos + 1, AskedPos + AskedWidth), 1)
  ELSE IF call.op = "vec3f"
    THEN <<getFloat32(b.buf, AskedPos), getFloat32(b.buf, AskedPos + 4),
           getFloat32(b.buf, AskedPos + 8)>>
  ELSE Decode(call.op, b.buf, AskedPos)

\* C9: every typed read that returns gives the value decoded at its read position
\* and leaves the cursor at read position + width, the read position being the
\* cursor for a sequential read and the explicit offset (0 included) otherwise.
C9_CursorSemantics ==
  (call.op # "new" /\ ~ret.threw /\ InView(b.buf, AskedPos, AskedWidth)) =>
    /\ ret.val = AskedValue
    /\ b.cursor = AskedPos + AskedWidth

\* C9, the part the code keeps: a sequential read (no explicit offset) returns
\* the value at the cursor and advances the cursor by the width.
C9_Sequential ==
  (call.op # "new" /\ ~ret.threw /\ (call.at = NoArg \/ (call.op = "str" /\ call.until = 0))) =>
    /\ ret.val = AskedValue
    /\ b.cursor = call.cursor + AskedWidth

C9_SequentialWitness ==
  /\ call.op = "u16" /\ call.at = NoArg /\ ~ret.threw
  /\ call.cursor = 4 /\ b.cursor = 6

\* ------------------------------------------------------------ light normals
LIGHT_HEADER_SIZE == 8

\* JavaScript's 32-bit operators on the ToInt32 view p of a number:
\* p >> k (sign-propagating), p << k (wrapping at 32 bits), p & 0xFFC0
Sar(p, k) == p \div (2 ^ k)
Shl4(p) ==
  LET low == p % 134217728             \* bits 0..26 of p
      bit27 == (p \div 134217728) % 2   \* becomes the sign bit
  IN IF bit27 = 1 THEN (low * 16 - 2147483647) - 1 ELSE low * 16
AndFFC0(v) == (v % 65536) - (v % 64)

\* read_bin's unpacking of the packed normal; each component is a multiple of
\* 1/16384 and is kept as its numerator (nx * 16384)
UnpackNormal(packed) ==
  <<AndFFC0(Sar(packed, 16)), AndFFC0(Sar(packed, 6)), AndFFC0(Shl4(packed))>>

\* One iteration of the light loop: object, point, packed normal.  packed is
\* read with u32() and only used under >> and <<, which see its ToInt32 view.
LightOf(h) ==
  IF h.threw THEN [threw |-> TRUE, cursor |-> h.cursor, light |-> NoLight]
  ELSE [threw |-> FALSE, cursor |-> h.cursor,
        light |-> [object |-> h.vals[1], point |-> h.vals[2],
                   normal |-> UnpackNormal(h.vals[3])]]
ReadLight(lb) == LightOf(Reads(lb, <<"u16", "u16", "i32">>))

\* The forward packing the layout documents: a component c in [-1, 1] as the
\* 16-bit two's-complement fixed point c * 16384, its top 10 bits stored where
\* the unpacking masks select them; the result as four little-endian bytes.
Fixed16(c) == c % 65536
PackNormal(x, y, z) ==
  LET fx == AndFFC0(Fixed16(x)) \div 64      \* 10 bits, to bits 22..31
      fy == AndFFC0(Fixed16(y)) \div 64      \* 10 bits, to bits 12..21
      fz == AndFFC0(Fixed16(z)) \div 64      \* 10 bits, to bits 2..11
      lo16 == (fz * 4) + (fy % 16) * 4096
      hi16 == (fy \div 16) + fx * 64
  IN <<lo16 % 256, lo16 \div 256, hi16 % 256, hi16 \div 256>>

\* Components to try, in 1/16384: both signs, the ends of the range, values
\* on and off the 10-bit grid
Components == {-16384, -8192, -65, -64, -1, 0, 1, 63, 64, 100, 8192, 16383, 16384}
MaxLightIx == 2

\* The light table of one record, miss bytes of it missing when the table
\* is shorter than a record
InitLight ==
  /\ MultiIdle
  /\ BufferIdle
  /\ \E x \in Components, y \in Components, z \in Components,
        o \in 0..MaxLightIx, pt \in {0, MaxLightIx}, miss \in {0, 2, 5, 7} :
       /\ comp = <<x, y, z>>
       /\ lbuffer = NewBuffer(SubSeq(<<o, 0, pt, 0>> \o PackNormal(x, y, z),
                                     1, LIGHT_HEADER_SIZE - miss))
  /\ light = NoLight
  /\ lthrew = FALSE
  /\ MatIdle
  /\ HierIdle
  /\ BinIdle

\* The light loop body on the record (read_bin, lines 711-720): a read past
\* the end of the table throws with the cursor moved and no light made
LightRead(r) ==
  /\ lthrew' = r.threw
  /\ light' = IF r.threw THEN light ELSE r.light
  /\ lbuffer' = [lbuffer EXCEPT !.cursor = r.cursor]
DecodeLight ==
  /\ light = NoLight
  /\ ~lthrew
  /\ lbuffer.cursor = 0
  /\ LightRead(ReadLight(lbuffer))
  /\ UNCHANGED <<comp, bufferVars, matVars, hierVars, binVars, multiVars>>

NextLight == DecodeLight

SpecLight == InitLight /\ [][NextLight]_vars

Abs(v) == IF v < 0 THEN -v ELSE v

\* C4: packing a normal with components in [-1, 1] and unpacking it with
\* read_bin's formula gives every component back to within the quantisation
\* step of the 10-bit field (64/16384), negative components included.
C4_RoundTrip ==
  light # NoLight =>
    \A k \in 1..3 : Abs(light.normal[k] - comp[k]) < 64

\* C4 restricted to what the code achieves: non-negative components round-trip
C4_RoundTripNonNegative ==
  light # NoLight =>
    \A k \in 1..3 : comp[k] >= 0 => Abs(light.normal[k] - comp[k]) < 64

\* ---------------------------------------------------------------- materials
MATERIAL_TYPE_TEXTURE == 0
MATERIAL_TYPE_COLOR == 1
MATERIAL_TYPE_REPLACER == 100
MATERIAL_HEADER_SIZE == 26

\* Strings are sequences of char codes (String.fromCharCode of each byte).
Dot == 46
IsSpace(c) == c \in {9, 10, 11, 12, 13, 32, 160}
\* String.prototype.trim on char codes 1..255
RECURSIVE TrimStart(_)
TrimStart(t) == IF t # <<>> /\ IsSpace(Head(t)) THEN TrimStart(Tail(t)) ELSE t
RECURSIVE TrimEnd(_)
TrimEnd(t) ==
  IF t # <<>> /\ IsSpace(t[Len(t)]) THEN TrimEnd(SubSeq(t, 1, Len(t) - 1)) ELSE t
trim(t) == TrimEnd(TrimStart(t))
\* String.prototype.toLowerCase on char codes 1..255 (A-Z and Latin-1 capitals)
toLowerCase(t) ==
  [i \in 1..Len(t) |->
     IF (t[i] >= 65 /\ t[i] <= 90) \/ (t[i] >= 192 /\ t[i] <= 222 /\ t[i] # 215)
       THEN t[i] + 32 ELSE t[i]]
includesDot(t) == \E i \in 1..Len(t) : t[i] = Dot
\* t.split('.')[0] and t.split('.').pop(), for t that includes a dot
FirstDot(t) == CHOOSE i \in 1..Len(t) : t[i] = Dot /\ \A j \in 1..(i - 1) : t[j] # Dot
LastDot(t) == CHOOSE i \in 1..Len(t) : t[i] = Dot /\ \A j \in (i + 1)..Len(t) : t[j] # Dot
splitFirst(t) == SubSeq(t, 1, FirstDot(t) - 1)
splitPop(t) == SubSeq(t, LastDot(t) + 1, Len(t))

Replace == <<114, 101, 112, 108, 97, 99, 101>>       \* "replace"
Gif == <<103, 105, 102>>                              \* "gif"
replaceMaterialNames == { Replace \o <<48 + n>> : n \in 0..3 }

\* ReplacerOf without the lower-casing: a case-sensitive comparison
ReplacerOf_CaseSensitive(name) ==
  LET rawName == trim(name)
      baseName == IF includesDot(rawName) THEN splitFirst(rawName) ELSE rawName
      ext == IF includesDot(rawName) THEN splitPop(rawName) ELSE <<>>
  IN IF baseName \in replaceMaterialNames /\ (ext = <<>> \/ ext = Gif)
       THEN baseName[Len(baseName)] - 48
       ELSE -1

\* The replacer slot of a material name, or -1 (read_bin, lines 746-756)
ReplacerOf(name) ==
  LET rawName == trim(name)
      lowerName == toLowerCase(rawName)
      baseName == IF includesDot(lowerName) THEN splitFirst(lowerName) ELSE lowerName
      ext == IF includesDot(lowerName) THEN splitPop(lowerName) ELSE <<>>
  IN IF baseName \in replaceMaterialNames /\ (ext = <<>> \/ ext = Gif)
       THEN baseName[Len(baseName)] - 48      \* parseInt(baseName.slice(-1))
       ELSE -1

NoField == -1    \* a field the decoder left undefined

\* One iteration of the material loop on mbuffer (read_bin, lines 740-769):
\* h holds name, type byte and id; slot the replacer slot; t the decoded tail.
MaterialOf(h, slot, type, t) ==
  IF t.threw THEN [threw |-> TRUE, cursor |-> t.cursor]
  ELSE [threw |-> FALSE, cursor |-> t.cursor,
        material |->
          IF type = MATERIAL_TYPE_COLOR
            THEN [name |-> h.vals[1], type |-> type, id |-> h.vals[3],
                  replacer |-> slot,
                  blue |-> t.vals[1], green |-> t.vals[2], red |-> t.vals[3],
                  pal_index |-> t.vals[5], handle |-> NoField, uvscale |-> NoField,
                  trans |-> NoField, illum |-> NoField]
            ELSE [name |-> h.vals[1], type |-> type, id |-> h.vals[3],
                  replacer |-> slot,
                  blue |-> NoField, green |-> NoField, red |-> NoField,
                  pal_index |-> NoField, handle |-> t.vals[1], uvscale |-> t.vals[2],
                  trans |-> NoField, illum |-> NoField]]

\* MaterialTail with no pad byte between red and pal_index
MaterialTail_NoPad(mb, h, slot, type) ==
  MaterialOf(h, slot, type,
             Reads([mb EXCEPT !.cursor = h.cursor],
                   IF type = MATERIAL_TYPE_COLOR
                     THEN <<"u8", "u8", "u8", "u32", "u8">>
                     ELSE <<"u32", "r32">>))

\* The tail of the record: 8 bytes read by the material's type
MaterialTail(mb, h, slot, type) ==
  MaterialOf(h, slot, type,
             Reads([mb EXCEPT !.cursor = h.cursor],
                   IF type = MATERIAL_TYPE_COLOR
                     THEN <<"u8", "u8", "u8", "u8", "u32">>
                     ELSE <<"u32", "r32">>))
MaterialType(mb, h, slot) ==
  MaterialTail(mb, h, slot, IF slot # -1 THEN MATERIAL_TYPE_REPLACER ELSE h.vals[2])
MaterialHead(mb, h) ==
  IF h.threw THEN [threw |-> TRUE, cursor |-> h.cursor]
  ELSE MaterialType(mb, h, ReplacerOf(h.vals[1]))
ReadMaterial(mb) == MaterialHead(mb, Reads(mb, <<"str16", "u8", "i8">>))

\* A 26-byte material record as the file stores it: name padded with zero
\* bytes to 16, type byte, id byte, 8 bytes of tail
MaterialBytes(name, type, id, tail) ==
  [i \in 1..16 |-> IF i <= Len(name) THEN name[i] ELSE 0] \o <<type, id>> \o tail

\* Names to try: an optional blank, a stem, a digit or none, what follows
NameLeads == {<<>>, <<32>>}
NameStems == {Replace, <<82, 69, 80, 76, 65, 67, 69>>, <<114, 101, 112, 108, 97, 99>>,
              <<120>> \o Replace}
NameDigits == {<<48>>, <<51>>, <<52>>, <<>>}
NameTails == {<<>>, <<Dot>> \o Gif, <<Dot, 71, 73, 70>>, <<Dot>>, <<Dot, 120, Dot>> \o Gif,
              <<Dot, 112, 110, 103>>, <<Dot>> \o Gif \o <<Dot>>, <<32>>}
MaterialNames ==
  { l \o st \o d \o t : l \in NameLeads, st \in NameStems, d \in NameDigits, t \in NameTails }
TypeBytes == {MATERIAL_TYPE_TEXTURE, MATERIAL_TYPE_COLOR, MATERIAL_TYPE_REPLACER, 7}
MaxMaterials == 2
\* The tail bytes of record k (distinct, below 128)
TailBytes(k) == [i \in 1..8 |-> 10 * k + i]

RECURSIVE Flatten(_)
Flatten(ss) == IF ss = <<>> THEN <<>> ELSE Head(ss) \o Flatten(Tail(ss))

\* The material table of read_bin: bin.slice(offset_material, offset_material +
\* 26 * num_materials); miss bytes are missing when the file ends early
InitMaterials ==
  /\ MultiIdle
  /\ BufferIdle /\ LightIdle /\ HierIdle /\ BinIdle
  /\ \E n \in 1..MaxMaterials, name \in MaterialNames, type \in TypeBytes, miss \in {0, 5} :
       LET recs == [k \in 1..n |->
                     IF k = 1 THEN MaterialBytes(name, type, 256 - k, TailBytes(k))
                     ELSE MaterialBytes(Replace \o <<48 + k>>, k % 2, k, TailBytes(k))]
           table == Flatten(recs)
       IN /\ num_materials = n
          /\ mbuffer = NewBuffer(SubSeq(table, 1, Len(table) - miss))
  /\ materials = <<>>
  /\ mthrew = FALSE

\* for (let i = 0; i < model.num_materials; i++) { ...; model.materials.push(material) }
MaterialRead(r) ==
  /\ mbuffer' = [mbuffer EXCEPT !.cursor = r.cursor]
  /\ mthrew' = r.threw
  /\ materials' = IF r.threw THEN materials ELSE Append(materials, r.material)
DecodeMaterial ==
  /\ ~mthrew
  /\ Len(materials) < num_materials
  /\ MaterialRead(ReadMaterial(mbuffer))
  /\ UNCHANGED <<num_materials, bufferVars, lightVars, hierVars, binVars, multiVars>>

NextMaterials == DecodeMaterial

SpecMaterials == InitMaterials /\ [][NextMaterials]_vars

\* What the table stores for material i (1-based): its name and its type byte
StoredName(i) ==
  UntilZero(SubSeq(mbuffer.buf, MATERIAL_HEADER_SIZE * (i - 1) + 1,
                   MATERIAL_HEADER_SIZE * (i - 1) + 16), 1)
StoredType(i) == mbuffer.buf[MATERIAL_HEADER_SIZE * (i - 1) + 17]

\* The name, trimmed and lower-cased, is exactly replaceN or replaceN.gif
IsReplaceN(name, n) ==
  \/ toLowerCase(trim(name)) = Replace \o <<48 + n>>
  \/ toLowerCase(trim(name)) = Replace \o <<48 + n, Dot>> \o Gif

\* C5 as claimed: a material is a replacer with slot N if its name is replaceN
\* or replaceN.gif (trimmed, any case), whatever its type byte; every other
\* material keeps its stored type and has slot -1.
C5_ReplacerExactNames ==
  \A i \in 1..Len(materials) :
    IF \E n \in 0..3 : IsReplaceN(StoredName(i), n)
      THEN \E n \in 0..3 : /\ IsReplaceN(StoredName(i), n)
                          /\ materials[i].type = MATERIAL_TYPE_REPLACER
                          /\ materials[i].replacer = n
      ELSE /\ materials[i].type = StoredType(i)
           /\ materials[i].replacer = -1

\* The names the code reclassifies: replaceN, then nothing, or a dot followed
\* by anything that ends in a dot or in ".gif" (or is empty)
EndsWith(t, suffix) ==
  Len(t) >= Len(suffix) /\ SubSeq(t, Len(t) - Len(suffix) + 1, Len(t)) = suffix
IsReplaceNLoose(name, n) ==
  LET lower == toLowerCase(trim(name))
      rest == SubSeq(lower, 9, Len(lower))
  IN /\ Len(lower) >= 8
     /\ SubSeq(lower, 1, 8) = Replace \o <<48 + n>>
     /\ \/ rest = <<>>
        \/ rest[1] = Dot /\ (rest[Len(rest)] = Dot \/ EndsWith(rest, <<Dot>> \o Gif))

\* C5 amended: a material is a replacer with slot N exactly if its trimmed,
\* lower-cased name is replaceN, alone or followed by a dot and any text that
\* is empty, ends in a dot or ends in ".gif"; every other material keeps its
\* stored type and has slot -1.
C5_ReplacerNames ==
  \A i \in 1..Len(materials) :
    IF \E n \in 0..3 : IsReplaceNLoose(StoredName(i), n)
      THEN \E n \in 0..3 : /\ IsReplaceNLoose(StoredName(i), n)
                          /\ materials[i].type = MATERIAL_TYPE_REPLACER
                          /\ materials[i].replacer = n
      ELSE /\ materials[i].type = StoredType(i)
           /\ materials[i].replacer = -1

\* REPLACE3.GIF stored with the flat-colour type byte is decoded as replacer 3
C5_Witness ==
  /\ Len(materials) >= 1
  /\ StoredName(1) = <<82, 69, 80, 76, 65, 67, 69, 51, Dot, 71, 73, 70>>
  /\ StoredType(1) = MATERIAL_TYPE_COLOR
  /\ materials[1].replacer = 3

\* ------------------------------------------- setupThree: parent assignment
\* Arrays are 1-based here: objects[k + 1] is the source's objects[k], and
\* parentIndex[k + 1] its parentIndex[k]; hi, hs and the stored indices are
\* the source's 0-based values.
MaxObjs == 3

\* InRangeIx taking index 0 for no index
InRangeIx_Positive(k, n) == k > 0 /\ k < n

\* An index into an array of n entries
InRangeIx(k, n) == k >= 0 /\ k < n

\* const parentIndex = new Array(objects.length).fill(-1); i = 0
InitHier ==
  /\ MultiIdle
  /\ BufferIdle /\ LightIdle /\ MatIdle /\ BinIdle
  /\ objects \in [1..MaxObjs -> [child : -1..MaxObjs, sibling : -1..MaxObjs]]
  /\ parentIndex = [k \in 1..MaxObjs |-> -1]
  /\ hi = 0
  /\ hs = -1
  /\ hpc = "outer"
  /\ hturn = 0
  /\ attachedTo = <<>>

\* One pass of the for loop up to the while: the first child gets parent i
OuterStep ==
  /\ hpc = "outer"
  /\ hi < Len(objects)
  /\ LET firstChild == objects[hi + 1].child
     IN IF InRangeIx(firstChild, Len(objects))
          THEN /\ parentIndex' = [parentIndex EXCEPT ![firstChild + 1] = hi]
               /\ hs' = objects[firstChild + 1].sibling
               /\ hpc' = "inner"
               /\ hi' = hi
          ELSE /\ hi' = hi + 1
               /\ UNCHANGED <<parentIndex, hs, hpc>>
  /\ UNCHANGED <<objects, hturn, attachedTo, bufferVars, lightVars, matVars, binVars, multiVars>>

\* The for loop's exit test fails: the walk is over
OuterExit ==
  /\ hpc = "outer"
  /\ hi >= Len(objects)
  /\ hpc' = "done"
  /\ UNCHANGED <<objects, parentIndex, hi, hs, hturn, attachedTo, bufferVars, lightVars, matVars, binVars, multiVars>>

\* One test of the while and, if it holds, one pass of its body
InnerStep ==
  /\ hpc = "inner"
  /\ IF InRangeIx(hs, Len(objects))
       THEN /\ parentIndex' = [parentIndex EXCEPT ![hs + 1] = hi]
            /\ hs' = objects[hs + 1].sibling
            /\ hturn' = 1 - hturn
            /\ UNCHANGED <<hi, hpc>>
       ELSE /\ hi' = hi + 1
            /\ hpc' = "outer"
            /\ UNCHANGED <<parentIndex, hs, hturn>>
  /\ UNCHANGED <<objects, attachedTo, bufferVars, lightVars, matVars, binVars, multiVars>>

\* The group an object's group is added to: subGroups[p] or sceneRoot
GroupOf(p) == IF p >= 0 THEN [subGroup |-> p] ELSE [sceneRoot |-> TRUE]

\* The loop that attaches every object's group (lines 365-370)
Attach ==
  /\ hpc = "done"
  /\ attachedTo' = [k \in 1..Len(objects) |-> GroupOf(parentIndex[k])]
  /\ hpc' = "attached"
  /\ UNCHANGED <<objects, parentIndex, hi, hs, hturn, bufferVars, lightVars, matVars, binVars, multiVars>>

NextHier == OuterStep \/ OuterExit \/ InnerStep \/ Attach

SpecHier == InitHier /\ [][NextHier]_vars
\* setupThree runs to completion once called: no step is postponed forever
SpecHierFair == SpecHier /\ WF_vars(NextHier)

\* C7: the parent-assignment walk finishes for every object table, tables
\* whose child/sibling indices loop included.
C7_WalkTerminates == <>(hpc = "done")

\* ------------------------------------------------------------- the BIN file
\* Little-endian encodings, as the file stores them
U16Bytes(v) == <<(v % 65536) % 256, (v % 65536) \div 256>>
U32Bytes(v) == <<v % 256, (v \div 256) % 256, (v \div 65536) % 256, (v \div 16777216) % 256>>
\* A float, told apart by two of its bytes
F32Bytes(a, c) == <<a, c, 128, 63>>
\* n bytes of consecutive floats F32Bytes(0, tag), F32Bytes(1, tag), ...
FloatFill(tag, n) == [j \in 1..n |-> F32Bytes((j - 1) \div 4, tag)[((j - 1) % 4) + 1]]
RECURSIVE U16List(_)
U16List(vs) == IF vs = <<>> THEN <<>> ELSE U16Bytes(Head(vs)) \o U16List(Tail(vs))

POLY_TYPE_TEXTURE == 27     \* 0x1B
POLY_TYPE_RGB == 89         \* 0x59
POLY_TYPE_PAL == 57         \* 0x39
OBJECT_HEADER_SIZE == 93
VHOT_HEADER_SIZE == 16
Magic == <<76, 71, 77, 68>>   \* 0x444D474C, little-endian
MagicU32 == 1145915212        \* 0x444D474C

\* A polygon record: 12-byte head, n point indices, n light indices, n uv
\* indices if textured, and the material-index byte in a version-4 file
PolyBytes(q, version) ==
  U16Bytes(q.id) \o U16Bytes(q.material) \o <<q.type, Len(q.points)>>
    \o U16Bytes(q.normal) \o F32Bytes(q.id % 256, 5)
    \o U16List(q.points) \o U16List(q.lights)
    \o (IF q.type = POLY_TYPE_TEXTURE THEN U16List(q.uvs) ELSE <<>>)
    \o (IF version = 4 THEN <<q.mat_ix>> ELSE <<>>)

\* A 93-byte object record: name, 61-byte transform, child, sibling, the
\* first/count pairs of vhots, points, lights, normals, first node, node count
ObjBytes(o, k) ==
  <<111, 48 + k, 0, 0, 0, 0, 0, 0>>
    \o <<o.ttype>> \o U32Bytes(k) \o F32Bytes(k, 1) \o F32Bytes(k, 2)
    \o FloatFill(20 + k, 48)
    \o U16Bytes(o.child) \o U16Bytes(o.sibling)
    \o U16Bytes(0) \o U16Bytes(0)
    \o U16Bytes(o.first_point) \o U16Bytes(o.num_points)
    \o U16Bytes(0) \o U16Bytes(0) \o U16Bytes(0) \o U16Bytes(0)
    \o U16Bytes(0) \o U16Bytes(k + 1)

\* Light k of the table: object 0, point k, a packed normal that differs per k
LightBytes(k) == <<0, 0, k, 0>> \o PackNormal(64 * k, 16384 - 64 * k, 8192)
VhotBytes(k) == U32Bytes(k) \o FloatFill(40 + k, 12)

HeaderSize(version) == IF version = 4 THEN 122 ELSE 110

\* The file of a description d: header, then the tables in the order objects,
\* materials, uv maps, vhots, points, lights, normals, polygons, and the
\* extended material block in a version-4 file that has one (d.exsize > 0);
\* the uv, light and normal tables are given by their byte lengths.
MkBin(d) ==
  LET objTab == Flatten([k \in 1..Len(d.objs) |-> ObjBytes(d.objs[k], k - 1)])
      matTab == Flatten([k \in 1..Len(d.mats) |->
                  MaterialBytes(d.mats[k].name, d.mats[k].type, k, TailBytes(k))])
      uvTab == FloatFill(9, d.uvBytes)
      vhotTab == Flatten([k \in 1..d.nvhots |-> VhotBytes(k - 1)])
      pointTab == FloatFill(3, 12 * d.npoints)
      lightTab == SubSeq(Flatten([k \in 1..((d.lightBytes + 7) \div 8) |-> LightBytes(k - 1)]),
                         1, d.lightBytes)
      normalTab == FloatFill(7, d.normalBytes)
      polyTab == Flatten([k \in 1..Len(d.polys) |-> PolyBytes(d.polys[k], d.version)])
      exTab == IF d.version = 4
                 THEN [j \in 1..(d.exsize * Len(d.mats)) |-> 128 + (j % 100)]
                 ELSE <<>>
      oObj == HeaderSize(d.version)
      oMat == oObj + Len(objTab)
      oMap == oMat + Len(matTab)
      oVhot == oMap + Len(uvTab)
      oPoint == oVhot + Len(vhotTab)
      oLight == oPoint + Len(pointTab)
      oNormal == oLight + Len(lightTab)
      oPoly == oNormal + Len(normalTab)
      oNode == oPoly + Len(polyTab)
      size == oNode + Len(exTab)
  IN d.sig \o U32Bytes(d.version) \o <<109, 100, 108, 0, 0, 0, 0, 0>>
       \o F32Bytes(1, 0) \o F32Bytes(2, 0) \o FloatFill(1, 36)
       \o U16Bytes(Len(d.polys)) \o U16Bytes(d.npoints) \o U16Bytes(0)
       \o <<Len(d.mats), 0, d.nvhots, Len(d.objs)>>
       \o U32Bytes(oObj) \o U32Bytes(oMat) \o U32Bytes(oMap) \o U32Bytes(oVhot)
       \o U32Bytes(oPoint) \o U32Bytes(oLight) \o U32Bytes(oNormal) \o U32Bytes(oPoly)
       \o U32Bytes(oNode) \o U32Bytes(size)
       \o (IF d.version = 4
             THEN U32Bytes(3) \o U32Bytes(IF d.exsize > 0 THEN oNode ELSE 0)
                    \o U32Bytes(d.exsize)
             ELSE <<>>)
       \o objTab \o matTab \o uvTab \o vhotTab \o pointTab \o lightTab \o normalTab
       \o polyTab \o exTab

\* bin with the bytes at offset at replaced
Patch(bin, at, bytes) ==
  [i \in 1..Len(bin) |-> IF i > at /\ i <= at + Len(bytes) THEN bytes[i - at] ELSE bin[i]]

\* ------------------------------------------------------------------ read_bin
\* The derived table counts are quotients of byte distances and need not be
\* whole: a count is kept as the exact fraction num/den (den > 0).
Rat(n, d) == [num |-> n, den |-> d]
RatPositive(r) == r.num > 0
\* i < r, for an integer i
IntLtRat(i, r) == i * r.den < r.num
\* i > Math.max(0, r - 1), for an integer i
IntGtMaxIx(i, r) == i * r.den > Max(0, r.num - r.den)
\* r * k where k is a multiple of r's denominator: the product is exact in
\* double arithmetic (den is 8 or 12)
RatTimes(r, k) == r.num * (k \div r.den)

\* ArrayBuffer.prototype.slice(start, end) for 0 <= start: both ends are
\* clamped to the length, and an end before the start gives no bytes
slice(bin, start, end) ==
  IF Min(end, Len(bin)) <= Min(start, Len(bin)) THEN <<>>
  ELSE SubSeq(bin, Min(start, Len(bin)) + 1, Min(end, Len(bin)))

\* Float32Array that truncates a ragged byte length instead of throwing
Float32ArrayThrows_Never(bytes) == FALSE

\* new Float32Array(bytes): a RangeError unless the byte length is a multiple
\* of 4; the floats otherwise
Float32ArrayThrows(bytes) == Len(bytes) % 4 # 0
Float32Array(bytes) == [k \in 1..(Len(bytes) \div 4) |-> getFloat32(bytes, 4 * (k - 1))]

\* SignatureRead comparing the low half of the signature only
SignatureRead_LowHalf(r) ==
  /\ buffer' = [buffer EXCEPT !.cursor = r.cursor]
  /\ pc' = IF r.threw THEN "threw"
           ELSE IF r.val % 65536 # MagicU32 % 65536 THEN "mismatch" ELSE "header"
  /\ UNCHANGED <<model, results>>

\* const signature = buffer.u32(); if (signature !== 0x444D474C) return;
SignatureRead(r) ==
  /\ buffer' = [buffer EXCEPT !.cursor = r.cursor]
  /\ pc' = IF r.threw THEN "threw"
           ELSE IF r.val # MagicU32 THEN "mismatch" ELSE "header"
  /\ UNCHANGED <<model, results>>

ReadSignature ==
  /\ pc = "signature"
  /\ SignatureRead(u32(buffer, NoArg))
  /\ UNCHANGED <<bufferVars, lightVars, matVars, hierVars, multiVars>>

\* The header fields in the order read_bin reads them (lines 660-683)
HeaderKinds ==
  <<"u32", "str8", "r32", "r32", "vec3f", "vec3f", "vec3f", "u16", "u16", "u16",
    "u8", "u8", "u8", "u8", "u32", "u32", "u32", "u32", "u32", "u32", "u32",
    "u32", "u32", "u32">>

\* new Model() with the header fields, the version-4 fields (ex, undefined in
\* other versions) and the three derived counts
HeaderModel(h, ex) ==
  [version |-> h[1], name |-> h[2], max_radius |-> h[3], min_radius |-> h[4],
   max_bounds |-> h[5], min_bounds |-> h[6], center |-> h[7],
   num_polys |-> h[8], num_points |-> h[9], num_params |-> h[10],
   num_materials |-> h[11], num_vcalls |-> h[12], num_vhots |-> h[13],
   num_objs |-> h[14],
   offset_obj |-> h[15], offset_material |-> h[16], offset_mapping |-> h[17],
   offset_vhot |-> h[18], offset_point |-> h[19], offset_light |-> h[20],
   offset_normal |-> h[21], offset_poly |-> h[22], offset_node |-> h[23],
   bin_size |-> h[24],
   material_ex_flags |-> ex[1], material_ex_offset |-> ex[2],
   material_ex_size |-> ex[3],
   uses_trans |-> IF ex[1] = NoField THEN NoField ELSE ex[1] % 2,
   uses_illum |-> IF ex[1] = NoField THEN NoField ELSE 2 * ((ex[1] \div 2) % 2),
   num_uvmaps |-> Rat(h[18] - h[17], 8),
   num_lights |-> Rat(h[21] - h[20], 8),
   num_normals |-> Rat(h[22] - h[21], 12),
   points |-> <<>>, normals |-> <<>>, has_uvmaps |-> FALSE, uvmaps |-> <<>>,
   lights |-> <<>>, vhots |-> <<>>, materials |-> <<>>, polys |-> <<>>,
   objects |-> <<>>, num_nodes |-> 0]

\* A part of read_bin has run: it threw, or the model is as it left it
Ran(r, next) ==
  /\ pc' = IF r.threw THEN "threw" ELSE next
  /\ model' = IF r.threw THEN model ELSE r.model

HeaderDone(h, ex) ==
  /\ buffer' = [buffer EXCEPT !.cursor = ex.cursor]
  /\ pc' = IF ex.threw THEN "threw" ELSE "tables"
  /\ model' = IF ex.threw THEN model ELSE HeaderModel(h.vals, ex.vals)

HeaderRead(h) ==
  IF h.threw
    THEN HeaderDone(h, h)
  ELSE IF h.vals[1] = 4
    THEN HeaderDone(h, Reads([buffer EXCEPT !.cursor = h.cursor], <<"u32", "u32", "u32">>))
  ELSE HeaderDone(h, [threw |-> FALSE, cursor |-> h.cursor,
                      vals |-> <<NoField, NoField, NoField>>])

\* read_bin, lines 659-693
ReadHeader ==
  /\ pc = "header"
  /\ HeaderRead(Reads(buffer, HeaderKinds))
  /\ UNCHANGED <<results, bufferVars, lightVars, matVars, hierVars, multiVars>>

\* read_bin, lines 695-704: the point, normal and uv tables
TablesOf(m, pointBytes, normalBytes, uvBytes) ==
  IF Float32ArrayThrows(pointBytes) \/ Float32ArrayThrows(normalBytes)
       \/ Float32ArrayThrows(uvBytes)
    THEN [threw |-> TRUE]
    ELSE [threw |-> FALSE,
          model |-> [m EXCEPT !.points = Float32Array(pointBytes),
                              !.normals = Float32Array(normalBytes),
                              !.has_uvmaps = RatPositive(m.num_uvmaps),
                              !.uvmaps = Float32Array(uvBytes)]]

DecodeTables ==
  /\ pc = "tables"
  /\ Ran(
       TablesOf(model,
         slice(buffer.buf, model.offset_point, model.offset_point + model.num_points * 12),
         slice(buffer.buf, model.offset_normal, model.offset_normal + RatTimes(model.num_normals, 12)),
         IF RatPositive(model.num_uvmaps)
           THEN slice(buffer.buf, model.offset_mapping, model.offset_mapping + RatTimes(model.num_uvmaps, 8))
           ELSE <<>>),
       "lights")
  /\ UNCHANGED <<buffer, results, bufferVars, lightVars, matVars, hierVars, multiVars>>

\* A table loop has ended with r: it threw, or the model's field holds its items
Filled(m, field, r) ==
  [threw |-> r.threw, model |-> [m EXCEPT ![field] = r.items]]

\* read_bin, lines 706-722: the light loop over lbuffer
RECURSIVE LightLoop(_, _, _, _)
LightLoopNext(lb, i, n, acc, r) ==
  IF r.threw THEN [threw |-> TRUE, items |-> acc]
  ELSE LightLoop([lb EXCEPT !.cursor = r.cursor], i + 1, n, Append(acc, r.light))
LightLoop(lb, i, n, acc) ==
  IF ~IntLtRat(i, n) THEN [threw |-> FALSE, items |-> acc]
  ELSE LightLoopNext(lb, i, n, acc, ReadLight(lb))

DecodeLights ==
  /\ pc = "lights"
  /\ Ran(
       IF RatPositive(model.num_lights)
         THEN Filled(model, "lights", LightLoop(
                NewBuffer(slice(buffer.buf, model.offset_light,
                                model.offset_light + RatTimes(model.num_lights, LIGHT_HEADER_SIZE))),
                0, model.num_lights, <<>>))
         ELSE [threw |-> FALSE, model |-> model],
       "vhots")
  /\ UNCHANGED <<buffer, results, bufferVars, lightVars, matVars, hierVars, multiVars>>

\* read_bin, lines 724-734: the vhot loop over vbuffer
RECURSIVE VhotLoop(_, _, _, _)
VhotLoopNext(vb, i, n, acc, r) ==
  IF r.threw THEN [threw |-> TRUE, items |-> acc]
  ELSE VhotLoop([vb EXCEPT !.cursor = r.cursor], i + 1, n,
                Append(acc, [id |-> r.vals[1], point |-> r.vals[2]]))
VhotLoop(vb, i, n, acc) ==
  IF i >= n THEN [threw |-> FALSE, items |-> acc]
  ELSE VhotLoopNext(vb, i, n, acc, Reads(vb, <<"i32", "vec3f">>))

DecodeVhots ==
  /\ pc = "vhots"
  /\ Ran(
       IF model.num_vhots > 0
         THEN Filled(model, "vhots", VhotLoop(
                NewBuffer(slice(buffer.buf, model.offset_vhot,
                                model.offset_vhot + VHOT_HEADER_SIZE * model.num_vhots)),
                0, model.num_vhots, <<>>))
         ELSE [threw |-> FALSE, model |-> model],
       "materials")
  /\ UNCHANGED <<buffer, results, bufferVars, lightVars, matVars, hierVars, multiVars>>

\* read_bin, lines 736-770: the material loop over mbuffer
RECURSIVE MaterialLoop(_, _, _, _)
MaterialLoopNext(mb, i, n, acc, r) ==
  IF r.threw THEN [threw |-> TRUE, items |-> acc]
  ELSE MaterialLoop([mb EXCEPT !.cursor = r.cursor], i + 1, n, Append(acc, r.material))
MaterialLoop(mb, i, n, acc) ==
  IF i >= n THEN [threw |-> FALSE, items |-> acc]
  ELSE MaterialLoopNext(mb, i, n, acc, ReadMaterial(mb))

DecodeMaterials ==
  /\ pc = "materials"
  /\ Ran(
       Filled(model, "materials", MaterialLoop(
         NewBuffer(slice(buffer.buf, model.offset_material,
                         model.offset_material + MATERIAL_HEADER_SIZE * model.num_materials)),
         0, model.num_materials, <<>>)),
       "materialex")
  /\ UNCHANGED <<buffer, results, bufferVars, lightVars, matVars, hierVars, multiVars>>

\* read_bin, lines 772-780: trans and illum of each material from abuffer,
\* and two more r32 skipped when the declared record size exceeds 8
RECURSIVE MaterialExLoop(_, _, _, _, _)
MaterialExLoopNext(ab, i, n, size, mats, r) ==
  IF r.threw THEN [threw |-> TRUE, items |-> mats]
  ELSE MaterialExLoop([ab EXCEPT !.cursor = r.cursor], i + 1, n, size,
                      [mats EXCEPT ![i + 1].trans = r.vals[1], ![i + 1].illum = r.vals[2]])
MaterialExLoop(ab, i, n, size, mats) ==
  IF i >= n THEN [threw |-> FALSE, items |-> mats]
  ELSE MaterialExLoopNext(ab, i, n, size, mats,
         Reads(ab, IF size > 8 THEN <<"r32", "r32", "r32", "r32">> ELSE <<"r32", "r32">>))

DecodeMaterialEx ==
  /\ pc = "materialex"
  /\ Ran(
       IF model.version = 4 /\ model.material_ex_offset # 0
         THEN Filled(model, "materials", MaterialExLoop(
                NewBuffer(slice(buffer.buf, model.material_ex_offset,
                                model.material_ex_offset + model.material_ex_size * model.num_materials)),
                0, model.num_materials, model.material_ex_size, model.materials))
         ELSE [threw |-> FALSE, model |-> model],
       "polys")
  /\ UNCHANGED <<buffer, results, bufferVars, lightVars, matVars, hierVars, multiVars>>

\* read_bin, lines 782-804: the polygon loop on buffer, from offset_poly
PolyKinds(n, type, version) ==
  [j \in 1..(IF type = POLY_TYPE_TEXTURE THEN 3 * n ELSE 2 * n) |-> "u16"]
    \o (IF version = 4 THEN <<"u8">> ELSE <<>>)

\* new Polygon() filled from the head h and the index lists t
PolyOf(h, t, version) ==
  [id |-> h[1], material |-> h[2], type |-> h[3], num_points |-> h[4],
   normal |-> h[5], plane |-> h[6],
   points |-> SubSeq(t, 1, h[4]),
   lights |-> SubSeq(t, h[4] + 1, 2 * h[4]),
   uvs |-> IF h[3] = POLY_TYPE_TEXTURE THEN SubSeq(t, 2 * h[4] + 1, 3 * h[4]) ELSE <<>>,
   mat_ix |-> IF version = 4 THEN t[Len(t)] ELSE NoField]

PolyTail(h, t, version) ==
  IF t.threw THEN [threw |-> TRUE, cursor |-> t.cursor]
  ELSE [threw |-> FALSE, cursor |-> t.cursor, poly |-> PolyOf(h.vals, t.vals, version)]
PolyHead(this, h, version) ==
  IF h.threw THEN [threw |-> TRUE, cursor |-> h.cursor]
  ELSE PolyTail(h, Reads([this EXCEPT !.cursor = h.cursor],
                         PolyKinds(h.vals[4], h.vals[3], version)),
                version)
ReadPoly(this, version) ==
  PolyHead(this, Reads(this, <<"i16", "i16", "u8", "u8", "u16", "r32">>), version)

RECURSIVE PolyLoop(_, _, _, _, _)
PolyLoopNext(this, i, n, version, acc, r) ==
  IF r.threw THEN [threw |-> TRUE, cursor |-> r.cursor, items |-> acc]
  ELSE PolyLoop([this EXCEPT !.cursor = r.cursor], i + 1, n, version, Append(acc, r.poly))
PolyLoop(this, i, n, version, acc) ==
  IF i >= n THEN [threw |-> FALSE, cursor |-> this.cursor, items |-> acc]
  ELSE PolyLoopNext(this, i, n, version, acc, ReadPoly(this, version))

PolysRead(r) ==
  /\ buffer' = [buffer EXCEPT !.cursor = r.cursor]
  /\ pc' = IF r.threw THEN "threw" ELSE "sanitize"
  /\ model' = IF r.threw THEN model ELSE [model EXCEPT !.polys = r.items]

DecodePolys ==
  /\ pc = "polys"
  /\ PolysRead(PolyLoop([buffer EXCEPT !.cursor = model.offset_poly], 0,
                        model.num_polys, model.version, <<>>))
  /\ UNCHANGED <<results, bufferVars, lightVars, matVars, hierVars, multiVars>>

\* read_bin, lines 806-850: the filter callback's tests on one polygon
validPolyTypes == {POLY_TYPE_TEXTURE, POLY_TYPE_RGB, POLY_TYPE_PAL}
\* maxPoint one short of the last point
maxPoint_OneShort(m) == Max(0, m.num_points - 2)
maxPoint(m) == Max(0, m.num_points - 1)
maxLight(m) == Max(0, Len(m.lights) - 1)
maxMat(m) == Max(0, (IF Len(m.materials) = 0 THEN 1 ELSE Len(m.materials)) - 1)

Keeps(m, poly) ==
  /\ poly.type \in validPolyTypes
  /\ ~(poly.normal < 0 \/ IntGtMaxIx(poly.normal, m.num_normals))
  /\ \A i \in 1..Len(poly.points) :
       ~(poly.points[i] < 0 \/ poly.points[i] > maxPoint(m))
  /\ Len(poly.lights) = Len(poly.points)
  /\ \A i \in 1..Len(poly.lights) :
       ~(poly.lights[i] < 0 \/ poly.lights[i] > maxLight(m))
  /\ poly.type = POLY_TYPE_TEXTURE =>
       /\ Len(poly.uvs) = Len(poly.points)
       /\ ~(~RatPositive(m.num_uvmaps) \/ ~m.has_uvmaps)
       /\ \A i \in 1..Len(poly.uvs) :
            ~(poly.uvs[i] < 0 \/ IntGtMaxIx(poly.uvs[i], m.num_uvmaps))

\* matIndex taking the 1-based material field as it is stored
matIndex_OneBased(m, poly) ==
  Min(maxMat(m),
      Max(0, IF poly.mat_ix # NoField THEN poly.mat_ix ELSE poly.material))

\* The material index of a polygon that is kept, 0-based and clamped
matIndex(m, poly) ==
  Min(maxMat(m),
      Max(0, IF poly.mat_ix # NoField THEN poly.mat_ix ELSE poly.material - 1))

\* model.polys.filter(...): the kept polygons in order, their mat_ix rewritten
RECURSIVE filter(_, _)
filter(m, polys) ==
  IF polys = <<>> THEN <<>>
  ELSE IF Keeps(m, Head(polys))
    THEN <<[Head(polys) EXCEPT !.mat_ix = matIndex(m, Head(polys))]>>
           \o filter(m, Tail(polys))
  ELSE filter(m, Tail(polys))

Sanitize ==
  /\ pc = "sanitize"
  /\ model' = [model EXCEPT !.polys = filter(model, model.polys)]
  /\ pc' = "objects"
  /\ UNCHANGED <<buffer, results, bufferVars, lightVars, matVars, hierVars, multiVars>>

\* read_bin, lines 852-894: the object loop over obuffer
ObjKinds ==
  <<"str8", "u8", "i32", "r32", "r32", "vec3f", "vec3f", "vec3f", "vec3f",
    "i16", "i16", "u16", "u16", "u16", "u16", "u16", "u16", "u16", "u16",
    "u16", "u16">>

\* InPointRange with the end of the range counted in
InPointRange_Closed(poly, p_start, p_end) ==
  \E pi \in 1..Len(poly.points) : poly.points[pi] >= p_start /\ poly.points[pi] <= p_end

\* poly has a point index in [p_start, p_end)
InPointRange(poly, p_start, p_end) ==
  \E pi \in 1..Len(poly.points) : poly.points[pi] >= p_start /\ poly.points[pi] < p_end

\* ownedPolys without the break: a polygon is pushed once for each of its
\* points in the range
RECURSIVE ownedPolys_PerPoint(_, _, _, _)
ownedPolys_PerPoint(polys, p, p_start, p_end) ==
  IF p > Len(polys) THEN <<>>
  ELSE LET hits == { pi \in 1..Len(polys[p].points) :
                       polys[p].points[pi] >= p_start /\ polys[p].points[pi] < p_end }
       IN [k \in 1..Cardinality(hits) |-> p]
            \o ownedPolys_PerPoint(polys, p + 1, p_start, p_end)

\* obj.polys: the polygons of model.polys with a point in the object's range,
\* in order; a polygon is held by reference, here its position in model.polys
RECURSIVE ownedPolys(_, _, _, _)
ownedPolys(polys, p, p_start, p_end) ==
  IF p > Len(polys) THEN <<>>
  ELSE (IF InPointRange(polys[p], p_start, p_end) THEN <<p>> ELSE <<>>)
         \o ownedPolys(polys, p + 1, p_start, p_end)

\* new Obj() filled from the 21 values v of its record
ObjOf(v, polys) ==
  [name |-> v[1],
   transform |-> [type |-> v[2], id |-> v[3], min_position |-> v[4],
                  max_position |-> v[5], axis |-> <<v[6], v[7], v[8]>>,
                  center |-> v[9]],
   child |-> v[10], sibling |-> v[11],
   first_vhot |-> v[12], num_vhots |-> v[13],
   first_point |-> v[14], num_points |-> v[15],
   first_light |-> v[16], num_lights |-> v[17],
   first_normal |-> v[18], num_normals |-> v[19],
   first_node |-> v[20], num_nodes |-> v[21],
   polys |-> ownedPolys(polys, 1, v[14], v[14] + v[15])]

RECURSIVE ObjLoop(_, _, _, _, _)
ObjLoopNext(ob, i, n, polys, acc, r) ==
  IF r.threw THEN [threw |-> TRUE, items |-> acc]
  ELSE ObjLoop([ob EXCEPT !.cursor = r.cursor], i + 1, n, polys,
               Append(acc, ObjOf(r.vals, polys)))
ObjLoop(ob, i, n, polys, acc) ==
  IF i >= n THEN [threw |-> FALSE, items |-> acc]
  ELSE ObjLoopNext(ob, i, n, polys, acc, Reads(ob, ObjKinds))

RECURSIVE SumNodes(_)
SumNodes(objs) == IF objs = <<>> THEN 0 ELSE Head(objs).num_nodes + SumNodes(Tail(objs))

ObjectsOf(m, r) ==
  [threw |-> r.threw,
   model |-> [m EXCEPT !.objects = r.items, !.num_nodes = SumNodes(r.items)]]

\* The object table, and `return model`
DecodeObjects ==
  /\ pc = "objects"
  /\ Ran(
       ObjectsOf(model, ObjLoop(
         NewBuffer(slice(buffer.buf, model.offset_obj, model.offset_obj + OBJECT_HEADER_SIZE * model.num_objs)),
         0, model.num_objs, model.polys, <<>>)),
       "returned")
  /\ UNCHANGED <<buffer, results, bufferVars, lightVars, matVars, hierVars, multiVars>>

\* ------------------------------------------------------------------ toThree
Undefined == <<>>                 \* an element read past the end of an array
Null == [null |-> TRUE]
\* arr[ix] of a JavaScript array or typed array, 0-based
At(arr, ix) == IF ix + 1 \in 1..Len(arr) THEN arr[ix + 1] ELSE Undefined
\* 1.0 - v, the flipped V coordinate
OneMinus(v) == [oneMinus |-> v]

\* triIndices as a strip [i - 1, i + 1, i] in place of the fan
triIndices_Strip(n) ==
  IF n > 3
    THEN [k \in 1..(3 * (n - 2)) |->
            IF (k - 1) % 3 = 0 THEN (k - 1) \div 3
            ELSE IF (k - 1) % 3 = 1 THEN ((k - 1) \div 3) + 2
            ELSE ((k - 1) \div 3) + 1]
    ELSE [k \in 1..n |-> n - k]

\* triIndices with a polygon of up to 3 vertices left in storage order
triIndices_Forward(n) ==
  IF n > 3
    THEN [k \in 1..(3 * (n - 2)) |->
            IF (k - 1) % 3 = 0 THEN 0
            ELSE IF (k - 1) % 3 = 1 THEN ((k - 1) \div 3) + 2
            ELSE ((k - 1) \div 3) + 1]
    ELSE [k \in 1..n |-> k - 1]

\* The vertex order of one polygon (toThree, lines 938-979): the fan
\* [0, i + 1, i] for i = 1 .. n - 2 when n > 3, the reverse order otherwise
triIndices(n) ==
  IF n > 3
    THEN [k \in 1..(3 * (n - 2)) |->
            IF (k - 1) % 3 = 0 THEN 0
            ELSE IF (k - 1) % 3 = 1 THEN ((k - 1) \div 3) + 2
            ELSE ((k - 1) \div 3) + 1]
    ELSE [k \in 1..n |-> n - k]

\* polyGroups with the group pushed after vertexCount has been advanced
polyGroups_AfterCount(poly, vertexCount) ==
  IF poly.num_points > 3
    THEN [i \in 1..(poly.num_points - 2) |->
            [start |-> vertexCount + 3 * i, count |-> 3,
             materialIndex |-> poly.mat_ix]]
    ELSE <<[start |-> vertexCount + poly.num_points, count |-> poly.num_points,
            materialIndex |-> poly.mat_ix]>>

\* polyGroups with the polygon's stored material field for the group's index
polyGroups_RawMaterial(poly, vertexCount) ==
  IF poly.num_points > 3
    THEN [i \in 1..(poly.num_points - 2) |->
            [start |-> vertexCount + 3 * (i - 1), count |-> 3,
             materialIndex |-> poly.material]]
    ELSE <<[start |-> vertexCount, count |-> poly.num_points,
            materialIndex |-> poly.material]>>

\* groups.push(...) of one polygon, vertexCount being the count before it
polyGroups(poly, vertexCount) ==
  IF poly.num_points > 3
    THEN [i \in 1..(poly.num_points - 2) |->
            [start |-> vertexCount + 3 * (i - 1), count |-> 3,
             materialIndex |-> poly.mat_ix]]
    ELSE <<[start |-> vertexCount, count |-> poly.num_points,
            materialIndex |-> poly.mat_ix]>>

\* What one vertex idx of poly pushes to positions, uvs and normals
vertexPositions(m, p_ix) ==
  <<At(m.points, p_ix), At(m.points, p_ix + 1), At(m.points, p_ix + 2)>>
vertexUvs(m, poly, idx) ==
  IF poly.type = POLY_TYPE_TEXTURE
    THEN <<At(m.uvmaps, poly.uvs[idx + 1] * 2),
           OneMinus(At(m.uvmaps, poly.uvs[idx + 1] * 2 + 1))>>
    ELSE <<0, 0>>
vertexNormals(m, poly, idx) == m.lights[poly.lights[idx + 1] + 1].normal

\* The TypeError of a vertex: model.uvmaps is undefined for a textured
\* polygon, or model.lights[l_ix] is undefined
vertexThrows(m, poly, idx) ==
  \/ poly.type = POLY_TYPE_TEXTURE /\ ~m.has_uvmaps
  \/ At(m.lights, poly.lights[idx + 1]) = Undefined

polyThrows(m, poly) ==
  \E k \in 1..Len(triIndices(poly.num_points)) :
    vertexThrows(m, poly, triIndices(poly.num_points)[k])

\* The arrays of one object with the vertices tri of poly pushed, and its groups
polyAdded(m, poly, tri, acc) ==
  [positions |-> acc.positions
     \o Flatten([k \in 1..Len(tri) |-> vertexPositions(m, poly.points[tri[k] + 1] * 3)]),
   uvs |-> acc.uvs \o Flatten([k \in 1..Len(tri) |-> vertexUvs(m, poly, tri[k])]),
   normals |-> acc.normals \o Flatten([k \in 1..Len(tri) |-> vertexNormals(m, poly, tri[k])]),
   groups |-> acc.groups \o polyGroups(poly, acc.vertexCount),
   vertexCount |-> acc.vertexCount + Len(tri)]
\* sub.polys from the k-th on added to the arrays
RECURSIVE subArrays(_, _, _, _)
subArrays(m, owned, k, acc) ==
  IF k > Len(owned) THEN acc
  ELSE subArrays(m, owned, k + 1,
         polyAdded(m, m.polys[owned[k]], triIndices(m.polys[owned[k]].num_points), acc))

\* sub_transform_matrix: Matrix4.set(...) in row-major order, or null
subTransform(t) ==
  IF t.type # 0
    THEN <<t.axis[1][1], t.axis[2][1], t.axis[3][1], t.center[1],
           t.axis[1][2], t.axis[2][2], t.axis[3][2], t.center[2],
           t.axis[1][3], t.axis[2][3], t.axis[3][3], t.center[3],
           0, 0, 0, 1>>
    ELSE Null

\* geomOf asking for more than the 9 positions of one triangle
geomOf_MoreThanOne(a) ==
  IF Len(a.positions) > 9
    THEN [position |-> a.positions, normal |-> a.normals, uv |-> a.uvs,
          groups |-> a.groups]
    ELSE Null

\* The geometry of finished arrays: attributes and groups when there is a
\* position, null otherwise
geomOf(a) ==
  IF Len(a.positions) > 0
    THEN [position |-> a.positions, normal |-> a.normals, uv |-> a.uvs,
          groups |-> a.groups]
    ELSE Null

subResult(m, sub) ==
  [geom |-> geomOf(subArrays(m, sub.polys, 1,
              [positions |-> <<>>, uvs |-> <<>>, normals |-> <<>>, groups |-> <<>>,
               vertexCount |-> 0])),
   transform |-> subTransform(sub.transform)]

toThreeThrows(m) ==
  \E oi \in 1..Len(m.objects) : \E k \in 1..Len(m.objects[oi].polys) :
    polyThrows(m, m.polys[m.objects[oi].polys[k]])

toThree(m) == [oi \in 1..Len(m.objects) |-> subResult(m, m.objects[oi])]

\* The caller (lines 43-48, 143-149): if (model) { AppState.model = model;
\* const geoms = toThree(model); ... }
ToThree ==
  /\ pc = "returned"
  /\ appModel' = model
  /\ IF toThreeThrows(model)
       THEN pc' = "toThreeThrew" /\ results' = results
       ELSE pc' = "built" /\ results' = toThree(model)
  /\ UNCHANGED <<buffer, model, bufferVars, lightVars, matVars, hierVars,
                 models, currentModelIndex, modelSelector, viewer, loads>>

\* --------------------------------------------------------- the files decoded
MaxSides == 5        \* the largest polygon of the probe files
MaxCut == 3          \* truncated files: cuts per kind of place

NameM == <<109>>                                       \* "m"
NameReplace == <<82, 101, 112, 108, 97, 99, 101, 50>>  \* "Replace2"
NoneIx == 65535                                        \* -1 as stored in an i16

\* One polygon of a probe file: n vertices, its indices in range or not
ProbePoints(n, out) == [k \in 1..n |-> IF out /\ k = n THEN 5 ELSE (k - 1) % 5]
ProbeLights(n, out) == [k \in 1..n |-> IF out /\ k = 1 THEN 5 ELSE (n - k) % 5]
ProbeUvs(n, out) == [k \in 1..n |-> IF out /\ k = n THEN 3 ELSE k % 3]

\* The well-formed file all families start from: version 3, one object over
\* its 5 points, 2 materials, 5 lights, 2 normals, no uv table, one triangle
BaseDesc ==
  [sig |-> Magic, version |-> 3,
   mats |-> <<[name |-> NameM, type |-> MATERIAL_TYPE_COLOR],
              [name |-> NameReplace, type |-> MATERIAL_TYPE_TEXTURE]>>,
   uvBytes |-> 0, nvhots |-> 1, npoints |-> 5, lightBytes |-> 40,
   normalBytes |-> 24,
   polys |-> <<[id |-> 1, material |-> 1, type |-> POLY_TYPE_RGB, normal |-> 0,
                points |-> <<0, 1, 2>>, lights |-> <<2, 1, 0>>, uvs |-> <<>>,
                mat_ix |-> 0]>>,
   objs |-> <<[ttype |-> 1, child |-> NoneIx, sibling |-> NoneIx,
               first_point |-> 0, num_points |-> 5]>>,
   exsize |-> 0]

\* Probe files: one polygon of every type, size and index fault, in a
\* version-3 file (material field) or a version-4 file (material-index byte)
ProbeDescs ==
  { [BaseDesc EXCEPT
       !.version = mv[1],
       !.uvBytes = IF type = POLY_TYPE_TEXTURE THEN uv[1] ELSE 0,
       !.exsize = IF mv[1] = 4 THEN 8 ELSE 0,
       !.polys = <<[id |-> 1, material |-> mv[2], type |-> type, normal |-> normal,
                    points |-> ProbePoints(n, pout), lights |-> ProbeLights(n, lout),
                    uvs |-> ProbeUvs(n, type = POLY_TYPE_TEXTURE /\ uv[2]),
                    mat_ix |-> mv[3]]>>] :
      n \in {0, 2} \cup 3..MaxSides,
      type \in {POLY_TYPE_TEXTURE, POLY_TYPE_RGB, POLY_TYPE_PAL, 26},
      pout \in BOOLEAN, lout \in BOOLEAN, normal \in {0, 2},
      uv \in {<<24, FALSE>>, <<24, TRUE>>, <<0, FALSE>>},
      mv \in {<<3, 0, 0>>, <<3, 5, 0>>, <<4, 1, 7>>} }

\* Files with empty tables and a polygon whose indices are all 0
EmptyTableDescs ==
  { [BaseDesc EXCEPT
       !.npoints = np, !.lightBytes = lb, !.normalBytes = nb, !.uvBytes = ub,
       !.objs = <<[ttype |-> 0, child |-> NoneIx, sibling |-> NoneIx,
                   first_point |-> 0, num_points |-> 1]>>,
       !.polys = <<[id |-> 1, material |-> 1, type |-> type, normal |-> 0,
                    points |-> <<0, 0, 0>>, lights |-> <<0, 0, 0>>,
                    uvs |-> <<0, 0, 0>>, mat_ix |-> 0]>>] :
      np \in {0, 3}, lb \in {0, 24}, nb \in {0, 12}, ub \in {0, 16},
      type \in {POLY_TYPE_TEXTURE, POLY_TYPE_RGB} }

\* Files with several polygons and objects over different point ranges
ManyPolys ==
  <<[id |-> 1, material |-> 1, type |-> POLY_TYPE_RGB, normal |-> 0,
     points |-> <<0, 1, 2>>, lights |-> <<0, 1, 2>>, uvs |-> <<>>, mat_ix |-> 0],
    [id |-> 2, material |-> 2, type |-> POLY_TYPE_TEXTURE, normal |-> 1,
     points |-> <<2, 3, 4, 5>>, lights |-> <<3, 2, 1, 0>>, uvs |-> <<0, 1, 2, 1>>,
     mat_ix |-> 1],
    [id |-> 3, material |-> 1, type |-> 26, normal |-> 0,
     points |-> <<0, 1, 2>>, lights |-> <<0, 1, 2>>, uvs |-> <<>>, mat_ix |-> 0],
    [id |-> 4, material |-> 0, type |-> POLY_TYPE_PAL, normal |-> 1,
     points |-> <<1, 3, 5, 6, 7>>, lights |-> <<4, 3, 2, 1, 0>>, uvs |-> <<>>,
     mat_ix |-> 1],
    [id |-> 5, material |-> 1, type |-> POLY_TYPE_RGB, normal |-> 0,
     points |-> <<7, 9>>, lights |-> <<0, 1>>, uvs |-> <<>>, mat_ix |-> 0],
    [id |-> 6, material |-> 1, type |-> POLY_TYPE_RGB, normal |-> 0,
     points |-> <<7, 8, 10>>, lights |-> <<0, 1, 2>>, uvs |-> <<>>, mat_ix |-> 0]>>

PointRanges == {<<0, 3>>, <<2, 4>>, <<3, 0>>, <<6, 4>>, <<0, 10>>, <<8, 1>>}

ObjectDescs ==
  { [BaseDesc EXCEPT
       !.version = version, !.npoints = 10, !.uvBytes = 24,
       !.polys = ManyPolys,
       !.objs = <<[ttype |-> 1, child |-> 1, sibling |-> NoneIx,
                   first_point |-> r1[1], num_points |-> r1[2]],
                  [ttype |-> 0, child |-> NoneIx, sibling |-> NoneIx,
                   first_point |-> r2[1], num_points |-> r2[2]]>>] :
      r1 \in PointRanges, r2 \in PointRanges, version \in {3, 4} }

\* Version-4 files with an extended material block of every record size
MaterialExDescs ==
  { [BaseDesc EXCEPT !.version = 4, !.exsize = size,
                     !.mats = SubSeq(BaseDesc.mats, 1, nm)] :
      size \in {0, 4, 8, 12, 16, 24}, nm \in 0..2 }

\* The header's fields by byte offset (read_bin, lines 660-687)
AtNumPolys == 60
AtNumPoints == 62
AtNumMaterials == 66
AtNumVhots == 68
AtNumObjs == 69
AtOffsetObj == 70
AtOffsetPoly == 98
AtExOffset == 114
AtExSize == 118

BaseBin == MkBin(BaseDesc)
BaseBin4 == MkBin([BaseDesc EXCEPT !.version = 4, !.exsize = 16])
TexturedBin == MkBin([BaseDesc EXCEPT !.uvBytes = 24, !.polys = SubSeq(ManyPolys, 2, 2),
                                      !.npoints = 6])

\* A table offset of the header moved: tables out of order, byte distances
\* that are no whole number of records
OffsetDeltas == {-100, -41, -13, -12, -8, -5, -4, -1, 1, 4, 8, 12, 24, 400}
MovedOffsetBins ==
  { Patch(bin, at, U32Bytes(getUint32(bin, at) + delta)) :
      bin \in {BaseBin, BaseBin4, TexturedBin},
      at \in {AtOffsetObj + 4 * k : k \in 0..7},
      delta \in OffsetDeltas }

\* A count of the header changed, the tables left as they are
CountBins ==
  { Patch(bin, at, <<v>>) :
      bin \in {BaseBin, BaseBin4, TexturedBin},
      at \in {AtNumPolys, AtNumPoints, AtNumMaterials, AtNumVhots, AtNumObjs},
      v \in {0, 1, 2, 3, 9, 200} }
    \cup { Patch(BaseBin4, AtExOffset, U32Bytes(v)) : v \in {0, 1, 300, 420, 5000} }
    \cup { Patch(BaseBin4, AtExSize, U32Bytes(v)) : v \in {0, 7, 9, 20} }

\* Files cut short: inside the signature, the header, and every table
CutBins ==
  { slice(bin, 0, len) :
      bin \in {BaseBin, BaseBin4},
      len \in (0..MaxCut) \cup (4..(4 + MaxCut)) \cup {16 * k : k \in 1..28}
               \cup ((Len(BaseBin) - MaxCut)..Len(BaseBin)) \cup (108..123) }

\* Files whose first four bytes are not the magic, with every kind of rest
BadSignatures ==
  {<<76, 71, 77, 69>>, <<77, 71, 77, 68>>, <<68, 77, 71, 76>>, <<0, 0, 0, 0>>,
   <<76, 71, 77, 0>>, <<76, 71, 0, 68>>, <<76, 0, 77, 68>>, <<76, 71, 77, 100>>}
BadSignatureBins ==
  { sig \o slice(bin, 4, len) :
      sig \in BadSignatures,
      bin \in {BaseBin, BaseBin4, TexturedBin},
      len \in {4, 5, 60, 120, Len(BaseBin)} }

\* Minimal well-formed files: one object over the 3 points of one triangle,
\* one flat-colour material, a light per vertex, one untextured polygon
MinimalDescs ==
  { [BaseDesc EXCEPT
       !.version = version,
       !.mats = <<[name |-> NameM, type |-> MATERIAL_TYPE_COLOR]>>,
       !.nvhots = 0, !.npoints = 3 + first, !.lightBytes = 8 * nlights,
       !.normalBytes = 12,
       !.polys = <<[id |-> 1, material |-> 1, type |-> type, normal |-> 0,
                    points |-> <<first + pl[1], first + pl[2], first + pl[3]>>,
                    lights |-> <<pl[3], pl[1], pl[2]>>, uvs |-> <<>>, mat_ix |-> 0]>>,
       !.objs = <<[ttype |-> ttype, child |-> NoneIx, sibling |-> NoneIx,
                   first_point |-> first, num_points |-> 3]>>] :
      version \in {3, 4}, first \in {0, 1}, nlights \in {3, 4},
      type \in {POLY_TYPE_RGB, POLY_TYPE_PAL}, ttype \in {0, 1},
      pl \in {<<0, 1, 2>>, <<2, 0, 1>>, <<1, 2, 0>>} }
MinimalBins == { MkBin(d) : d \in MinimalDescs }

Bins ==
  { MkBin(d) : d \in ProbeDescs \cup EmptyTableDescs \cup ObjectDescs \cup MaterialExDescs }
    \cup MinimalBins
    \cup MovedOffsetBins \cup CountBins \cup CutBins \cup BadSignatureBins

\* new Buffer(bin), at the first line of read_bin
InitBin ==
  /\ MultiIdle
  /\ \E bin \in Bins : buffer = NewBuffer(bin)
  /\ pc = "signature"
  /\ model = NoModel
  /\ results = <<>>
  /\ BufferIdle
  /\ LightIdle
  /\ MatIdle
  /\ HierIdle

NextBin ==
  \/ ReadSignature
  \/ ReadHeader
  \/ DecodeTables
  \/ DecodeLights
  \/ DecodeVhots
  \/ DecodeMaterials
  \/ DecodeMaterialEx
  \/ DecodePolys
  \/ Sanitize
  \/ DecodeObjects
  \/ ToThree

SpecBin == InitBin /\ [][NextBin]_vars

\* ------------------------------------------- multiModelViewer: directory loads
\* loadModelsFromDirectory is an async function: a call runs up to its
\* await loadZipFile(zipFile), other calls and handlers run while it waits,
\* and it goes on, in one piece up to the next await, when the zip is loaded.
\* loadZipFile catches all it throws and gives modelData or null; App, with
\* read_bin and loadModelWithTextures, is taken to be on the page.
MaxLoads == 2        \* calls of loadModelsFromDirectory
MaxFiles == 2        \* files of one directory

NameAZip == <<97, 46, 122, 105, 112>>      \* "a.zip"
NameBZip == <<66, 46, 90, 73, 80>>         \* "B.ZIP"
NameCBin == <<99, 46, 98, 105, 110>>       \* "c.bin"
DotZip == <<46, 122, 105, 112>>            \* ".zip"

\* The files of a directory: a name, and whether loadZipFile finds a model
DirFiles == [name : {NameAZip, NameBZip, NameCBin}, loads : BOOLEAN]
FileLists == UNION { [1..n -> DirFiles] : n \in 0..MaxFiles }

\* name.replace('.zip', ''): the first '.zip' of the name from at on taken out
RECURSIVE replaceDotZip(_, _)
replaceDotZip(name, at) ==
  IF at + Len(DotZip) - 1 > Len(name) THEN name
  ELSE IF SubSeq(name, at, at + Len(DotZip) - 1) = DotZip
    THEN SubSeq(name, 1, at - 1) \o SubSeq(name, at + Len(DotZip), Len(name))
    ELSE replaceDotZip(name, at + 1)

\* Array.from(files).filter(file => file.name.toLowerCase().endsWith('.zip'))
RECURSIVE zipFilesOf(_)
zipFilesOf(files) ==
  IF files = <<>> THEN <<>>
  ELSE (IF Len(Head(files).name) >= Len(DotZip)
           /\ SubSeq(toLowerCase(Head(files).name),
                     Len(Head(files).name) - Len(DotZip) + 1, Len(Head(files).name)) = DotZip
          THEN <<Head(files)>> ELSE <<>>)
       \o zipFilesOf(Tail(files))

\* The entry pushed for the k-th zip file of call c; the model and the
\* textures read from a file are told apart by the call and the file
EntryOf(c, k, file) ==
  [name |-> replaceDotZip(file.name, 1),
   model |-> [call |-> c, file |-> k],
   textures |-> [call |-> c, file |-> k]]

\* A call that has not been made, waits for its k-th zip file, or has returned
NotCalled == [at |-> "idle", zipFiles |-> <<>>, k |-> 0, during |-> {}]
Awaiting(zipFiles, k, during) ==
  [at |-> "awaiting", zipFiles |-> zipFiles, k |-> k, during |-> during]
Finished(zipFiles, during) ==
  [at |-> "done", zipFiles |-> zipFiles, k |-> 0, during |-> during]

\* createModelSelector: the old selector is removed from the page; a new one
\* with an option per model is built and kept if there is a container and
\* more than one model, the removed one stays in modelSelector otherwise
createModelSelector(sel, ms) ==
  IF ~viewer \/ Len(ms) <= 1
    THEN IF sel = Null THEN Null ELSE [sel EXCEPT !.attached = FALSE]
    ELSE [options |-> [i \in 1..Len(ms) |-> ms[i].name], value |-> 0, attached |-> TRUE]

\* select.value = index, on the select of the page if there is one: an index
\* without an option leaves nothing selected
selectValue(sel, index) ==
  IF sel = Null THEN sel
  ELSE IF ~sel.attached THEN sel
  ELSE [sel EXCEPT !.value = IF index < Len(sel.options) THEN index ELSE -1]

\* loadModelByIndex(index) on the models ms with the selector sel
loadModelByIndex(index, ms, sel) ==
  IF index < 0 \/ index >= Len(ms)
    THEN /\ modelSelector' = sel
         /\ UNCHANGED <<currentModelIndex, appModel>>
    ELSE /\ currentModelIndex' = index
         /\ modelSelector' = selectValue(sel, index)
         /\ appModel' = ms[index + 1].model

\* getCurrentModel()
getCurrentModel ==
  IF currentModelIndex >= 0 /\ currentModelIndex < Len(models)
    THEN models[currentModelIndex + 1] ELSE Null

\* const parts of the module at load time; no call made yet
InitMulti ==
  /\ BufferIdle /\ LightIdle /\ MatIdle /\ HierIdle /\ BinIdle
  /\ models = <<>>
  /\ currentModelIndex = -1
  /\ modelSelector = Null
  /\ appModel = Null
  /\ viewer \in BOOLEAN
  /\ loads = [c \in 1..MaxLoads |-> NotCalled]

\* The end of a call, lines 38-42, the models being ms
LoadsEnd(c, ms) ==
  /\ models' = ms
  /\ loads' = [loads EXCEPT ![c] = Finished(loads[c].zipFiles, loads[c].during)]
  /\ IF Len(ms) > 0
       THEN loadModelByIndex(0, ms, createModelSelector(modelSelector, ms))
       ELSE UNCHANGED <<currentModelIndex, modelSelector, appModel>>

\* Call c begins (lines 17-25): no files, return; otherwise models is
\* cleared and the call waits for its first zip file, or ends if it has none
CallBegins(c, zipFiles, during) ==
  IF zipFiles = <<>>
    THEN /\ models' = <<>>
         /\ loads' = [loads EXCEPT ![c] = Finished(zipFiles, during)]
         /\ UNCHANGED <<currentModelIndex, modelSelector, appModel>>
    ELSE /\ models' = <<>>
         /\ loads' = [loads EXCEPT ![c] = Awaiting(zipFiles, 1, during)]
         /\ UNCHANGED <<currentModelIndex, modelSelector, appModel>>

LoadModelsFromDirectory ==
  /\ \E c \in 1..MaxLoads :
       /\ loads[c].at = "idle"
       /\ \A e \in 1..(c - 1) : loads[e].at # "idle"
       /\ \E files \in FileLists :
            IF files = <<>>
              THEN /\ loads' = [loads EXCEPT ![c] = Finished(<<>>, {})]
                   /\ UNCHANGED <<models, currentModelIndex, modelSelector, appModel>>
              ELSE CallBegins(c, zipFilesOf(files),
                              { e \in 1..MaxLoads : loads[e].at = "awaiting" })
  /\ UNCHANGED <<viewer, bufferVars, lightVars, matVars, hierVars, binVars>>

\* Call c goes on behind its await (lines 25-36): the entry is pushed to what
\* MultiModelState.models is now, then the next file is awaited or the call ends
CallResumes(c, ms) ==
  IF loads[c].k < Len(loads[c].zipFiles)
    THEN /\ models' = ms
         /\ loads' = [loads EXCEPT ![c] = Awaiting(loads[c].zipFiles, loads[c].k + 1,
                                                    loads[c].during)]
         /\ UNCHANGED <<currentModelIndex, modelSelector, appModel>>
    ELSE LoadsEnd(c, ms)

ZipLoaded ==
  /\ \E c \in 1..MaxLoads :
       /\ loads[c].at = "awaiting"
       /\ CallResumes(c, IF loads[c].zipFiles[loads[c].k].loads
                           THEN Append(models, EntryOf(c, loads[c].k,
                                                       loads[c].zipFiles[loads[c].k]))
                           ELSE models)
  /\ UNCHANGED <<viewer, bufferVars, lightVars, matVars, hierVars, binVars>>

\* The select's change handler (lines 77-79), on a selector that is on the page
SelectChange ==
  /\ modelSelector # Null
  /\ modelSelector.attached
  /\ \E index \in 0..(Len(modelSelector.options) - 1) :
       loadModelByIndex(index, models, [modelSelector EXCEPT !.value = index])
  /\ UNCHANGED <<models, loads, viewer, bufferVars, lightVars, matVars, hierVars, binVars>>

\* cleanup(), lines 125-132
Cleanup ==
  /\ modelSelector # Null \/ models # <<>> \/ currentModelIndex # -1
  /\ modelSelector' = Null
  /\ models' = <<>>
  /\ currentModelIndex' = -1
  /\ UNCHANGED <<appModel, loads, viewer, bufferVars, lightVars, matVars, hierVars, binVars>>

\* handleFileInput's reader.onload (part_000, lines 41-49) with a file that
\* read_bin accepts: AppState.model = model, then toThree and setupThree; the
\* model of a single file is told apart from a directory's by where it came from
FileLoaded ==
  /\ appModel' = [single |-> "bin"]
  /\ UNCHANGED <<models, currentModelIndex, modelSelector, loads, viewer,
                 bufferVars, lightVars, matVars, hierVars, binVars>>

\* The app's own loadZipFile (part_000, lines 79-155), behind its awaits,
\* with a zip whose bin read_bin accepts: AppState.model = model
LoadZipFile ==
  /\ appModel' = [single |-> "zip"]
  /\ UNCHANGED <<models, currentModelIndex, modelSelector, loads, viewer,
                 bufferVars, lightVars, matVars, hierVars, binVars>>

NextMulti ==
  \/ LoadModelsFromDirectory \/ ZipLoaded \/ SelectChange \/ Cleanup
  \/ FileLoaded \/ LoadZipFile

SpecMulti == InitMulti /\ [][NextMulti]_vars

\* ------------------------------------------------------- claims on read_bin
SignatureOk(bin) == Len(bin) >= 4 /\ SubSeq(bin, 1, 4) = Magic
Returned == pc \in {"returned", "built", "toThreeThrew"}

\* C1: a buffer whose first 4 bytes are not the magic makes read_bin return
\* no model, whatever follows them, and nothing more is read or decoded: the
\* cursor stays behind the signature, no model and no geometry exist.
C1_BadSignatureStops ==
  (Len(buffer.buf) >= 4 /\ ~SignatureOk(buffer.buf) /\ pc # "signature")
    => /\ pc = "mismatch"
       /\ buffer.cursor = 4
       /\ model = NoModel
       /\ results = <<>>
\* A whole file behind a wrong signature has been refused
C1_Witness ==
  /\ pc = "mismatch"
  /\ Len(buffer.buf) = Len(BaseBin)
  /\ SubSeq(buffer.buf, 5, Len(BaseBin)) = SubSeq(BaseBin, 5, Len(BaseBin))

\* C2: in every model read_bin returns, every polygon left by the sanitize
\* pass has its normal index below num_normals, its point indices below
\* num_points, its light indices below the number of decoded lights and, if
\* textured, its uv indices below num_uvmaps.
C2_NoDanglingIndex ==
  Returned =>
    \A i \in 1..Len(model.polys) :
      /\ model.polys[i].normal >= 0
      /\ IntLtRat(model.polys[i].normal, model.num_normals)
      /\ \A k \in 1..Len(model.polys[i].points) :
           model.polys[i].points[k] < model.num_points
      /\ \A k \in 1..Len(model.polys[i].lights) :
           model.polys[i].lights[k] < Len(model.lights)
      /\ model.polys[i].type = POLY_TYPE_TEXTURE =>
           \A k \in 1..Len(model.polys[i].uvs) :
             IntLtRat(model.polys[i].uvs[k], model.num_uvmaps)

\* The part of a geometry's attribute arr that belongs to vertex v (0-based),
\* an attribute having size components per vertex
VertexPart(arr, v, size) == SubSeq(arr, size * v + 1, size * v + size)

\* Triangle j (1-based) of poly starts at vertex v of geom and has the
\* polygon's stored vertex 0 first: its point, its light normal, its uv
FirstIsVertex0(m, geom, poly, v) ==
  /\ VertexPart(geom.position, v, 3)
       = <<At(m.points, 3 * poly.points[1]), At(m.points, 3 * poly.points[1] + 1),
           At(m.points, 3 * poly.points[1] + 2)>>
  /\ VertexPart(geom.normal, v, 3) = m.lights[poly.lights[1] + 1].normal
  /\ poly.type = POLY_TYPE_TEXTURE =>
       VertexPart(geom.uv, v, 2)
         = <<At(m.uvmaps, 2 * poly.uvs[1]), OneMinus(At(m.uvmaps, 2 * poly.uvs[1] + 1))>>

\* The polygons owned[k..] of an object lie in geom from vertex v and group g
\* on, each as the claim says: a triangle is one group of 3 vertices, a
\* polygon of n > 3 points is n - 2 groups of 3 vertices that each start with
\* its vertex 0.  (A polygon of fewer than 3 points takes the one group the
\* geometry gives it.)
RECURSIVE Triangulated(_, _, _, _, _, _)
Triangulated(m, geom, owned, k, v, g) ==
  IF k > Len(owned)
    THEN Len(geom.position) = 3 * v /\ Len(geom.normal) = 3 * v
           /\ Len(geom.uv) = 2 * v /\ Len(geom.groups) = g
  ELSE IF m.polys[owned[k]].num_points < 3
    THEN /\ g + 1 <= Len(geom.groups)
         /\ geom.groups[g + 1].start = v
         /\ Triangulated(m, geom, owned, k + 1, v + geom.groups[g + 1].count, g + 1)
  ELSE IF m.polys[owned[k]].num_points = 3
    THEN /\ g + 1 <= Len(geom.groups)
         /\ geom.groups[g + 1].start = v /\ geom.groups[g + 1].count = 3
         /\ Triangulated(m, geom, owned, k + 1, v + 3, g + 1)
  ELSE /\ g + m.polys[owned[k]].num_points - 2 <= Len(geom.groups)
       /\ \A j \in 1..(m.polys[owned[k]].num_points - 2) :
            /\ geom.groups[g + j].start = v + 3 * (j - 1)
            /\ geom.groups[g + j].count = 3
            /\ 3 * (v + 3 * j) <= Len(geom.position)
            /\ FirstIsVertex0(m, geom, m.polys[owned[k]], v + 3 * (j - 1))
       /\ Triangulated(m, geom, owned, k + 1,
                       v + 3 * (m.polys[owned[k]].num_points - 2),
                       g + m.polys[owned[k]].num_points - 2)

\* C3: in the buffers toThree returns, a polygon of 3 points is exactly one
\* triangle (3 vertices) and a polygon of n > 3 points exactly n - 2
\* triangles (3 * (n - 2) vertices), each with the polygon's stored vertex 0
\* (point, light normal and uv) as its first vertex.
C3_FanTriangles ==
  pc = "built" =>
    \A oi \in 1..Len(model.objects) :
      model.objects[oi].polys # <<>> =>
        /\ results[oi].geom # Null
        /\ Triangulated(model, results[oi].geom, model.objects[oi].polys, 1, 0, 0)
\* An object built from a triangle, a textured quad and a pentagon
C3_Witness ==
  /\ pc = "built"
  /\ \E oi \in 1..Len(model.objects) :
       /\ \E k \in 1..Len(model.objects[oi].polys) :
            model.polys[model.objects[oi].polys[k]].num_points = 3
       /\ \E k \in 1..Len(model.objects[oi].polys) :
            /\ model.polys[model.objects[oi].polys[k]].num_points = 4
            /\ model.polys[model.objects[oi].polys[k]].type = POLY_TYPE_TEXTURE
       /\ \E k \in 1..Len(model.objects[oi].polys) :
            model.polys[model.objects[oi].polys[k]].num_points = 5
       /\ results[oi].geom # Null

\* C6: for a minimal well-formed file (1 object over 3 points, 1 flat-colour
\* material, a light per vertex, one untextured triangle) read_bin and then
\* toThree go through and give exactly one result: a non-null geometry of
\* exactly 3 vertices with exactly one group, start 0 and count 3.
C6_MinimalFile ==
  buffer.buf \in MinimalBins =>
    /\ pc \notin {"mismatch", "threw", "toThreeThrew"}
    /\ Returned => Len(model.objects) = 1 /\ Len(model.polys) = 1
    /\ pc = "built" =>
         /\ Len(results) = 1
         /\ results[1].geom # Null
         /\ Len(results[1].geom.position) = 3 * 3
         /\ Len(results[1].geom.normal) = 3 * 3
         /\ Len(results[1].geom.uv) = 3 * 2
         /\ Len(results[1].geom.groups) = 1
         /\ results[1].geom.groups[1].start = 0
         /\ results[1].geom.groups[1].count = 3
\* A minimal paletted version-4 file has been built
C6_Witness ==
  /\ pc = "built"
  /\ buffer.buf \in MinimalBins
  /\ model.version = 4
  /\ model.polys[1].type = POLY_TYPE_PAL
  /\ Len(results) = 1

\* C8 as claimed: once the signature check has passed read_bin never fails,
\* it returns a model.
C8_NeverFails ==
  SignatureOk(buffer.buf) => pc \notin {"threw", "mismatch"}

\* The bytes slice(start, end) gives of a file
Span(bin, start, end) == Max(0, Min(end, Len(bin)) - Min(start, Len(bin)))
\* The header ends before its last field
HeaderShort(bin) ==
  \/ Len(bin) < 110
  \/ getUint32(bin, 4) = 4 /\ Len(bin) < 122
\* A float table whose bytes are no whole number of floats
RaggedFloats(bin) ==
  \/ Span(bin, getUint32(bin, 86), getUint32(bin, 86) + 12 * getUint16(bin, 62)) % 4 # 0
  \/ Span(bin, getUint32(bin, 94), getUint32(bin, 98)) % 4 # 0
  \/ /\ getUint32(bin, 82) > getUint32(bin, 78)
     /\ Span(bin, getUint32(bin, 78), getUint32(bin, 82)) % 4 # 0
\* A record table that ends before the last record the loop reads
ShortTable(bin) ==
  \/ /\ getUint32(bin, 94) > getUint32(bin, 90)
     /\ Span(bin, getUint32(bin, 90), getUint32(bin, 94))
          < 8 * ((getUint32(bin, 94) - getUint32(bin, 90) + 7) \div 8)
  \/ Span(bin, getUint32(bin, 82), getUint32(bin, 82) + 16 * getUint8(bin, 68))
       < 16 * getUint8(bin, 68)
  \/ Span(bin, getUint32(bin, 74), getUint32(bin, 74) + 26 * getUint8(bin, 66))
       < 26 * getUint8(bin, 66)
  \/ Span(bin, getUint32(bin, 70), getUint32(bin, 70) + 93 * getUint8(bin, 69))
       < 93 * getUint8(bin, 69)
  \/ /\ getUint32(bin, 4) = 4
     /\ getUint32(bin, 114) # 0
     /\ Span(bin, getUint32(bin, 114),
             getUint32(bin, 114) + getUint32(bin, 118) * getUint8(bin, 66))
          < (IF getUint32(bin, 118) > 8 THEN 16 ELSE 8) * getUint8(bin, 66)
\* The polygon records i.. from byte pos on run past the end of the file
RECURSIVE ShortPolys(_, _, _, _)
ShortPolys(bin, pos, i, version) ==
  IF i >= getUint16(bin, 60) THEN FALSE
  ELSE IF pos + 12 > Len(bin) THEN TRUE
  ELSE ShortPolys(bin,
         pos + 12
           + 2 * getUint8(bin, pos + 5) * (IF getUint8(bin, pos + 4) = 27 THEN 3 ELSE 2)
           + (IF version = 4 THEN 1 ELSE 0),
         i + 1, version)
           \/ pos + 12
                + 2 * getUint8(bin, pos + 5) * (IF getUint8(bin, pos + 4) = 27 THEN 3 ELSE 2)
                + (IF version = 4 THEN 1 ELSE 0) > Len(bin)
\* read_bin has a reason to raise a RangeError on the file
Raises(bin) ==
  \/ HeaderShort(bin)
  \/ RaggedFloats(bin)
  \/ ShortTable(bin)
  \/ ShortPolys(bin, getUint32(bin, 98), 0, getUint32(bin, 4))

\* C8, amended: once the signature check has passed, read_bin never gives the
\* no-model outcome; it raises exactly when a read runs past the end of the
\* bytes it reads from or a float table's bytes are no multiple of 4, and
\* returns a model otherwise, negative derived counts included.
C8_FailsOnlyOnShortReads ==
  SignatureOk(buffer.buf) =>
    /\ pc # "mismatch"
    /\ pc = "threw" => Raises(buffer.buf)
    /\ Returned => ~Raises(buffer.buf)
\* A model was returned from a file whose light table offset lies behind its
\* normal table offset and whose uv offsets are in order
C8_Witness ==
  /\ pc = "returned"
  /\ model.num_lights.num < 0
  /\ model.lights = <<>>

\* Every condition the claim lists holds of polygon q in model m
Listed(m, q) ==
  /\ q.type \in {27, 89, 57}
  /\ q.normal >= 0
  /\ q.normal * m.num_normals.den <= m.num_normals.num - m.num_normals.den
  /\ \A k \in 1..Len(q.points) : q.points[k] >= 0 /\ q.points[k] <= m.num_points - 1
  /\ Len(q.lights) = Len(q.points)
  /\ \A k \in 1..Len(q.lights) : q.lights[k] >= 0 /\ q.lights[k] <= Len(m.lights) - 1
  /\ q.type = 27 =>
       /\ Len(q.uvs) = Len(q.points)
       /\ m.num_uvmaps.num > 0
       /\ \A k \in 1..Len(q.uvs) :
            /\ q.uvs[k] >= 0
            /\ q.uvs[k] * m.num_uvmaps.den <= m.num_uvmaps.num - m.num_uvmaps.den

\* post is pre with some polygons left out, none of them one that Listed
\* holds of, the others in their order and unchanged but for mat_ix
RECURSIVE Filtered(_, _, _)
Filtered(m, pre, post) ==
  IF pre = <<>> THEN post = <<>>
  ELSE \/ /\ post # <<>>
          /\ [Head(post) EXCEPT !.mat_ix = Head(pre).mat_ix] = Head(pre)
          /\ Filtered(m, Tail(pre), Tail(post))
       \/ /\ ~Listed(m, Head(pre))
          /\ Filtered(m, Tail(pre), post)

\* C10: the sanitize pass keeps every decoded polygon that meets all the
\* listed conditions, keeps the survivors in decode order, and changes no
\* field of a survivor but its material index.
C10_SanitizeKeepsListed ==
  [][pc = "sanitize" => Filtered(model, model.polys, model'.polys)]_vars
\* The pass has dropped polygons and kept three or more, a pentagon among them
C10_Witness ==
  /\ pc = "objects"
  /\ Len(model.polys) >= 3
  /\ model.num_polys > Len(model.polys)
  /\ \E i \in 1..Len(model.polys) : model.polys[i].num_points = 5

\* ------------------------------------------------- claims on the material index
\* x clamped to lo from below and to hi from above
Clamped(x, lo, upper) == IF x < lo THEN lo ELSE IF x > upper THEN upper ELSE x

\* The material reference of a decoded polygon: the version-4 byte when it
\* was decoded, the 1-based material field less one otherwise
MaterialRef(q) == IF q.mat_ix # NoField THEN q.mat_ix ELSE q.material - 1

\* post is what is left of pre; every polygon left has, for its mat_ix, the
\* material reference of its original clamped to 0 .. upper and lying in 0 .. top
RECURSIVE Normalized(_, _, _, _)
Normalized(pre, post, upper, top) ==
  IF post = <<>> THEN TRUE
  ELSE IF pre = <<>> THEN FALSE
  ELSE \/ /\ [Head(post) EXCEPT !.mat_ix = Head(pre).mat_ix] = Head(pre)
          /\ Head(post).mat_ix = Clamped(MaterialRef(Head(pre)), 0, upper)
          /\ Head(post).mat_ix \in 0..top
          /\ Normalized(Tail(pre), Tail(post), upper, top)
       \/ Normalized(Tail(pre), post, upper, top)

\* C11 as claimed: after the sanitize pass every surviving polygon's mat_ix
\* lies in [0, materialCount - 1] and is the version-4 byte, or material - 1,
\* clamped to 0 from below and to materialCount - 1 from above.
C11_MatIxInTable ==
  [][pc = "sanitize" =>
       Normalized(model.polys, model'.polys,
                  Len(model.materials) - 1, Len(model.materials) - 1)]_vars

\* C11, amended: the upper limit is max(0, materialCount - 1), so that a
\* model without materials gives every surviving polygon the index 0.
C11_MatIxClamped ==
  [][pc = "sanitize" =>
       Normalized(model.polys, model'.polys,
                  Max(0, Len(model.materials) - 1), Max(0, Len(model.materials) - 1))]_vars
\* A version-3 polygon whose material field lies beyond the table has been
\* clamped to the last material, and a version-4 file's byte likewise
C11_Witness ==
  /\ pc = "objects"
  /\ Len(model.materials) = 2
  /\ \E i \in 1..Len(model.polys) :
       /\ model.polys[i].mat_ix = 1
       /\ \/ model.version = 3 /\ model.polys[i].material = 5
          \/ model.version = 4 /\ model.polys[i].material = 1

\* ------------------------------------------------- claims on polygon ownership
\* The object's point range [first_point, first_point + num_points) holds one
\* of the polygon's point indices
Touches(obj, poly) ==
  \E p \in { poly.points[pi] : pi \in 1..Len(poly.points) } :
    obj.first_point <= p /\ p < obj.first_point + obj.num_points

\* How often polygon k of the validated collection stands in the list
Occurrences(list, k) == Cardinality({ j \in 1..Len(list) : list[j] = k })

\* The objects, in table order, that hold polygon k
Holders(k) == { i \in 1..Len(model.objects) : Occurrences(model.objects[i].polys, k) > 0 }

\* The first object in table order whose range the polygon touches, if any
FirstTouching(k) ==
  { i \in 1..Len(model.objects) :
      /\ Touches(model.objects[i], model.polys[k])
      /\ \A h \in 1..(i - 1) : ~Touches(model.objects[h], model.polys[k]) }

\* C12 as claimed: after read_bin every validated polygon is in the polys list
\* of at most one sub-object, the first in table order whose point range
\* holds one of its point indices.
C12_ExclusiveOwnership ==
  Returned =>
    \A k \in 1..Len(model.polys) :
      /\ Cardinality(Holders(k)) <= 1
      /\ Holders(k) \subseteq FirstTouching(k)

\* C12, amended: after read_bin a validated polygon is in the polys list of
\* every sub-object whose point range holds one of its point indices, once in
\* each such list and in no other list, so in several lists when the ranges
\* of several objects hold its points.
C12_SharedOwnership ==
  Returned =>
    \A k \in 1..Len(model.polys) : \A i \in 1..Len(model.objects) :
      Occurrences(model.objects[i].polys, k)
        = IF Touches(model.objects[i], model.polys[k]) THEN 1 ELSE 0
\* A polygon with two points in the range of each of two objects is in both lists, once
C12_Witness ==
  /\ Returned
  /\ Len(model.objects) = 2
  /\ \E k \in 1..Len(model.polys) :
       /\ Holders(k) = {1, 2}
       /\ \A i \in 1..2 :
            Cardinality({ pi \in 1..Len(model.polys[k].points) :
                            /\ model.objects[i].first_point <= model.polys[k].points[pi]
                            /\ model.polys[k].points[pi]
                                 < model.objects[i].first_point + model.objects[i].num_points }) >= 2

\* ------------------------------------------------- claims on the vertex count
\* The sanitize pass has run on model.polys
Sanitized == pc = "objects" \/ Returned

\* C13: after the sanitize pass every surviving polygon has num_points >= 3,
\* with points and lights lists of that length, and no polygon decoded with
\* fewer than 3 points is in an object's list for toThree to draw.
C13_AtLeastTriangle ==
  Sanitized =>
    /\ \A k \in 1..Len(model.polys) :
         /\ model.polys[k].num_points >= 3
         /\ Len(model.polys[k].points) = model.polys[k].num_points
         /\ Len(model.polys[k].lights) = model.polys[k].num_points
    /\ Returned =>
         \A i \in 1..Len(model.objects) :
           \A j \in 1..Len(model.objects[i].polys) :
             model.polys[model.objects[i].polys[j]].num_points >= 3

\* C14: every sub-object's polys list holds exactly the polygons of the
\* validated collection with a point index p, first_point <= p <
\* first_point + num_points, each once and in the collection's order; a polygon
\* with no point index in the range is not in the list.
C14_OwnedPolys ==
  Returned =>
    \A i \in 1..Len(model.objects) :
      LET list == model.objects[i].polys
      IN /\ \A j \in 1..Len(list) : list[j] \in 1..Len(model.polys)
         /\ \A j \in 1..(Len(list) - 1) : list[j] < list[j + 1]
         /\ { list[j] : j \in 1..Len(list) }
              = { k \in 1..Len(model.polys) : Touches(model.objects[i], model.polys[k]) }
\* Of a collection that lost polygons to the sanitize pass, an object holds
\* some polygons and not others, and an object leaves out a polygon with a
\* point right behind the end of its range
C14_Witness ==
  /\ Returned
  /\ Len(model.polys) < model.num_polys
  /\ \E i \in 1..Len(model.objects) :
       /\ Len(model.objects[i].polys) >= 2
       /\ Len(model.objects[i].polys) < Len(model.polys)
  /\ \E i \in 1..Len(model.objects) : \E k \in 1..Len(model.polys) :
       /\ Occurrences(model.objects[i].polys, k) = 0
       /\ \E pi \in 1..Len(model.polys[k].points) :
            model.polys[k].points[pi]
              = model.objects[i].first_point + model.objects[i].num_points

\* ------------------------------------------------- claims on the buffers built
\* C15: toThree returns one result per sub-object, and the result's geom is
\* null exactly when the sub-object's polys list is empty.
C15_BufferIffOwned ==
  pc = "built" =>
    /\ Len(results) = Len(model.objects)
    /\ \A i \in 1..Len(model.objects) :
         (results[i].geom = Null) <=> (model.objects[i].polys = <<>>)
\* Of two objects one owns a single triangle and has a buffer, the other
\* owns nothing and has none
C15_Witness ==
  /\ pc = "built"
  /\ Len(results) = 2
  /\ \E i, j \in 1..2 :
       /\ Len(model.objects[i].polys) = 1
       /\ model.polys[model.objects[i].polys[1]].num_points = 3
       /\ results[i].geom # Null
       /\ model.objects[j].polys = <<>>
       /\ results[j].geom = Null

\* The triangles (0, i + 1, i) from the i-th on of a polygon of n vertices
RECURSIVE FanFrom(_, _)
FanFrom(i, n) == IF i > n - 2 THEN <<>> ELSE <<0, i + 1, i>> \o FanFrom(i + 1, n)

\* The stored vertices a polygon of n >= 3 vertices is to emit, in order
EmissionOrder(n) == IF n = 3 THEN <<2, 1, 0>> ELSE FanFrom(1, n)

\* The number of vertices a polygon of n stored vertices adds to the stream
EmittedBy(n) == IF n > 3 THEN 3 * (n - 2) ELSE n

\* The number of vertices in the stream before the j-th owned polygon's
RECURSIVE EmittedBefore(_, _, _)
EmittedBefore(m, owned, j) ==
  IF j <= 1 THEN 0
  ELSE EmittedBefore(m, owned, j - 1) + EmittedBy(m.polys[owned[j - 1]].num_points)

\* The v-th vertex of the streams (v counted from 0) is stored vertex idx of poly
VertexIs(m, geom, v, poly, idx) ==
  /\ idx \in 0..(poly.num_points - 1)
  /\ SubSeq(geom.position, 3 * v + 1, 3 * v + 3)
       = vertexPositions(m, poly.points[idx + 1] * 3)
  /\ SubSeq(geom.normal, 3 * v + 1, 3 * v + 3) = vertexNormals(m, poly, idx)
  /\ SubSeq(geom.uv, 2 * v + 1, 2 * v + 2) = vertexUvs(m, poly, idx)

\* From vertex off on the streams hold the vertices of poly in the given order
EmittedInOrder(m, geom, off, poly, order) ==
  \A k \in 1..Len(order) : VertexIs(m, geom, off + k - 1, poly, order[k])

\* C16: in the streams toThree builds, a polygon of 3 vertices stands as its
\* stored vertices (2, 1, 0) and a polygon of n > 3 vertices as the triangles
\* (0, i + 1, i) for i = 1 .. n - 2 in increasing order, textured or not, and
\* every vertex read is one of the stored vertices 0 .. n - 1.
C16_EmissionOrder ==
  pc = "built" =>
    \A i \in 1..Len(model.objects) :
      \A j \in 1..Len(model.objects[i].polys) :
        model.polys[model.objects[i].polys[j]].num_points >= 3 =>
          EmittedInOrder(model, results[i].geom,
                         EmittedBefore(model, model.objects[i].polys, j),
                         model.polys[model.objects[i].polys[j]],
                         EmissionOrder(model.polys[model.objects[i].polys[j]].num_points))
\* An object's buffer holds a triangle, a textured quad and a pentagon
C16_Witness ==
  /\ pc = "built"
  /\ \E i \in 1..Len(model.objects) :
       /\ results[i].geom # Null
       /\ \E a, c, d \in 1..Len(model.objects[i].polys) :
            /\ model.polys[model.objects[i].polys[a]].num_points = 3
            /\ model.polys[model.objects[i].polys[c]].num_points = 4
            /\ model.polys[model.objects[i].polys[c]].type = POLY_TYPE_TEXTURE
            /\ model.polys[model.objects[i].polys[d]].num_points = 5
            /\ a < c /\ c < d

\* The groups g lie end to end from vertex 0 up to vertex total
Tiles(g, total) ==
  /\ Len(g) > 0
  /\ g[1].start = 0
  /\ \A k \in 1..(Len(g) - 1) : g[k + 1].start = g[k].start + g[k].count
  /\ g[Len(g)].start + g[Len(g)].count = total

\* The owned polygons whose vertices hold vertex v of the stream
EmittersOf(m, owned, v) ==
  { j \in 1..Len(owned) :
      /\ EmittedBefore(m, owned, j) <= v
      /\ v < EmittedBefore(m, owned, j + 1) }

\* Every group lies within the vertices of one polygon and has its mat_ix
GroupsOfEmitters(m, owned, g) ==
  \A k \in 1..Len(g) :
    /\ g[k].count > 0
    /\ \E j \in EmittersOf(m, owned, g[k].start) :
         /\ j \in EmittersOf(m, owned, g[k].start + g[k].count - 1)
         /\ g[k].materialIndex = m.polys[owned[j]].mat_ix

\* C17: in every buffer toThree builds the groups tile the vertex stream in
\* emission order: the first starts at 0, each starts where the one before
\* it ends, the counts add up to the number of vertices that the position,
\* normal and uv streams all hold, and each group has the normalized mat_ix
\* of the polygon that emitted its vertices.
C17_GroupsTile ==
  pc = "built" =>
    \A i \in 1..Len(model.objects) :
      results[i].geom # Null =>
        /\ Len(results[i].geom.position) = 3 * EmittedBefore(model, model.objects[i].polys,
                                                 Len(model.objects[i].polys) + 1)
        /\ Len(results[i].geom.normal) = Len(results[i].geom.position)
        /\ 3 * Len(results[i].geom.uv) = 2 * Len(results[i].geom.position)
        /\ Tiles(results[i].geom.groups, EmittedBefore(model, model.objects[i].polys,
                                            Len(model.objects[i].polys) + 1))
        /\ GroupsOfEmitters(model, model.objects[i].polys, results[i].geom.groups)
\* A buffer whose groups go from material 0 to material 1 and back to 0
C17_Witness ==
  /\ pc = "built"
  /\ \E i \in 1..Len(results) :
       /\ results[i].geom # Null
       /\ \E a, c, d \in 1..Len(results[i].geom.groups) :
            /\ a < c /\ c < d
            /\ results[i].geom.groups[a].materialIndex = 0
            /\ results[i].geom.groups[c].materialIndex = 1
            /\ results[i].geom.groups[d].materialIndex = 0

\* ------------------------------------------------- claims on the hierarchy
\* The objects met from s on by following sibling links, in at most fuel steps
RECURSIVE SiblingsFrom(_, _)
SiblingsFrom(s, fuel) ==
  IF s < 0 \/ s >= Len(objects) \/ fuel = 0 THEN {}
  ELSE {s} \cup SiblingsFrom(objects[s + 1].sibling, fuel - 1)

\* The sibling links from s on come to an end within fuel objects
RECURSIVE SiblingsEnd(_, _)
SiblingsEnd(s, fuel) ==
  IF s < 0 \/ s >= Len(objects) THEN TRUE
  ELSE IF fuel = 0 THEN FALSE
  ELSE SiblingsEnd(objects[s + 1].sibling, fuel - 1)

\* The children of object i: its first child and that child's siblings
ChildrenOf(i) == SiblingsFrom(objects[i + 1].child, Len(objects))

\* The objects that have j among their children
ParentsOf(j) == { i \in 0..(Len(objects) - 1) : j \in ChildrenOf(i) }

\* The objects above the objects of set js, up to fuel levels, by child links
RECURSIVE AboveByLinks(_, _)
AboveByLinks(js, fuel) ==
  IF fuel = 0 \/ js = {} THEN {}
  ELSE LET up == UNION { ParentsOf(j) : j \in js }
       IN up \cup AboveByLinks(up, fuel - 1)

\* The child/sibling indices form a proper forest: every list of siblings
\* ends, no object is a child of two objects, none is above itself
ProperForest ==
  /\ \A i \in 0..(Len(objects) - 1) : SiblingsEnd(objects[i + 1].child, Len(objects))
  /\ \A j \in 0..(Len(objects) - 1) : Cardinality(ParentsOf(j)) <= 1
  /\ \A j \in 0..(Len(objects) - 1) : j \notin AboveByLinks({j}, Len(objects))

\* The objects above object j by parentIndex, up to fuel levels
RECURSIVE AboveByParent(_, _)
AboveByParent(j, fuel) ==
  IF fuel = 0 \/ parentIndex[j + 1] < 0 THEN {}
  ELSE {parentIndex[j + 1]} \cup AboveByParent(parentIndex[j + 1], fuel - 1)

\* C18: over a proper forest, after the walk parentIndex[j] = i exactly when
\* j is i's first child or one of that child's siblings, an object that is
\* nobody's child keeps -1 and its group is added to the scene root, and no
\* object is its own parent or ancestor.
C18_ParentAssignment ==
  (hpc \in {"done", "attached"} /\ ProperForest) =>
    \A j \in 0..(Len(objects) - 1) :
      /\ \A i \in 0..(Len(objects) - 1) : (parentIndex[j + 1] = i) <=> (j \in ChildrenOf(i))
      /\ ParentsOf(j) = {} => parentIndex[j + 1] = -1
      /\ (hpc = "attached" /\ ParentsOf(j) = {}) => attachedTo[j + 1] = [sceneRoot |-> TRUE]
      /\ (hpc = "attached" /\ ParentsOf(j) # {})
           => \E i \in ParentsOf(j) : attachedTo[j + 1] = [subGroup |-> i]
      /\ j \notin AboveByParent(j, Len(objects))
\* The last object has the two others for its children, the first of them
\* object 0 with its sibling, and is itself added to the scene root
C18_Witness ==
  /\ hpc = "attached"
  /\ ProperForest
  /\ Len(objects) = 3
  /\ objects[3].child = 0
  /\ objects[1].sibling = 1
  /\ parentIndex = <<2, 2, -1>>
  /\ attachedTo[3] = [sceneRoot |-> TRUE]
  /\ attachedTo[1] = [subGroup |-> 2]

\* ------------------------------------------------- claims on the material tables
\* The extended material block has been decoded and read_bin goes on
PastMaterialEx == pc \in {"polys", "sanitize", "objects"} \/ Returned

\* C19: in a version-4 file with a material_ex_offset other than 0 and a
\* record size material_ex_size >= 8, the trans/illum pair of material i is
\* the two floats at byte i * material_ex_size of the extended block, the
\* bytes of a record behind the first 8 being skipped.
C19_ExRecordAligned ==
  (PastMaterialEx /\ model.version = 4 /\ model.material_ex_offset # 0
     /\ model.material_ex_size >= 8) =>
    \A i \in 0..(Len(model.materials) - 1) :
      /\ model.materials[i + 1].trans
           = slice(buffer.buf, model.material_ex_offset + i * model.material_ex_size,
                   model.material_ex_offset + i * model.material_ex_size + 4)
      /\ model.materials[i + 1].illum
           = slice(buffer.buf, model.material_ex_offset + i * model.material_ex_size + 4,
                   model.material_ex_offset + i * model.material_ex_size + 8)

\* The 32-bit little-endian number stored at byte at (counted from 0)
StoredU32(bytes, at) ==
  bytes[at + 1] + 256 * bytes[at + 2] + 65536 * bytes[at + 3] + 16777216 * bytes[at + 4]

\* Material k (from 1) holds the fields of the 26 bytes from byte base on:
\* the name of bytes 0-15, the id of byte 17 and, of bytes 18-25, blue, green,
\* red, a pad and pal_index if it is a flat-color material, handle and
\* uvscale if it is not
RecordAt(k, base) ==
  /\ materials[k].name = UntilZero(SubSeq(mbuffer.buf, base + 1, base + 16), 1)
  /\ materials[k].id = getInt8(mbuffer.buf, base + 17)
  /\ IF materials[k].type = MATERIAL_TYPE_COLOR
       THEN /\ materials[k].blue = mbuffer.buf[base + 19]
            /\ materials[k].green = mbuffer.buf[base + 20]
            /\ materials[k].red = mbuffer.buf[base + 21]
            /\ materials[k].pal_index = StoredU32(mbuffer.buf, base + 22)
            /\ materials[k].handle = NoField /\ materials[k].uvscale = NoField
       ELSE /\ materials[k].handle = StoredU32(mbuffer.buf, base + 18)
            /\ materials[k].uvscale = SubSeq(mbuffer.buf, base + 23, base + 26)
            /\ materials[k].blue = NoField /\ materials[k].green = NoField
            /\ materials[k].red = NoField /\ materials[k].pal_index = NoField

\* C20: every material record takes 26 bytes of the table whatever its type
\* byte and whether or not it becomes a replacer: with k materials decoded
\* the cursor is at 26 * k, material k was read from byte 26 * k on, a
\* flat-color material's tail is blue, green, red, pad, pal_index and any
\* other material's tail is handle, uvscale.
C20_MaterialRecord ==
  /\ ~mthrew => mbuffer.cursor = 26 * Len(materials)
  /\ \A k \in 1..Len(materials) : RecordAt(k, 26 * (k - 1))
\* Two records decoded: a flat-color material with its stored type, then a
\* replacer
C20_Witness ==
  /\ ~mthrew
  /\ Len(materials) = 2
  /\ mbuffer.cursor = 52
  /\ materials[1].type = MATERIAL_TYPE_COLOR
  /\ materials[1].pal_index = StoredU32(mbuffer.buf, 22)
  /\ materials[2].type = MATERIAL_TYPE_REPLACER
  /\ materials[2].handle = StoredU32(mbuffer.buf, 44)

\* ------------------------------------------------- claims on directory loads
\* Call late began while call early was waiting for a zip file, no call began
\* after it, and every call made has returned
OverlappedAndDone(early, late) ==
  /\ early < late
  /\ early \in loads[late].during
  /\ \A e \in 1..late : loads[e].at = "done"
  /\ \A e \in (late + 1)..MaxLoads : loads[e].at = "idle"

\* The models are entries of call late's files only, in the order of its files
OnlyOf(late) ==
  /\ \A i \in 1..Len(models) : models[i].model.call = late
  /\ \A i \in 1..(Len(models) - 1) : models[i].model.file < models[i + 1].model.file

\* currentModelIndex is -1 or the index of the entry whose model was last
\* given to loadModelWithTextures, and getCurrentModel gives no other model
CurrentIsShown ==
  /\ \/ currentModelIndex = -1
     \/ /\ currentModelIndex \in 0..(Len(models) - 1)
        /\ models[currentModelIndex + 1].model = appModel
  /\ getCurrentModel = Null \/ getCurrentModel.model = appModel

\* C21: if loadModelsFromDirectory is called again while an earlier call
\* waits for a zip load, then once both have returned models holds entries
\* of the later call's files only, in its file order, and currentModelIndex
\* is -1 or the index of the model last given to loadModelWithTextures.
C21_LoadsDoNotMix ==
  \A early, late \in 1..MaxLoads :
    OverlappedAndDone(early, late) => OnlyOf(late) /\ CurrentIsShown

====
